---- MODULE Spec2Model ----
(***************************************************************************)
(* Code Graph Extractor + Incremental Sync Engine of pfc-agents.           *)
(*                                                                         *)
(*   tools/code_graph_extractor/extractor.py   extractor, hash, walker     *)
(*   servers/code_graph.py                     sync_from_directory, store  *)
(*                                                                         *)
(* Strings are sequences of tokens.  Every character of a file path is a   *)
(* token of its own, so that SQL LIKE, str.endswith and the `in` substring *)
(* test act on paths character by character.  Kind names, declaration      *)
(* names and module names are atomic tokens; a node's name column holds a  *)
(* one-token string for a declaration and the base name for a file.        *)
(***************************************************************************)
EXTENDS Integers, Sequences, FiniteSets, TLC

\* ---------------------------------------------------------------- bounds
\* files in the project directory at any time
MaxFiles == 2
\* sync calls and directory changes in one behaviour
MaxSteps == 3

\* ---------------------------------------------------------------- strings
NULL == "NULL"
\* None where a digest is expected
NoHash == <<>>

RECURSIVE StartsWith(_, _)
StartsWith(s, p) ==
    IF p = <<>> THEN TRUE
    ELSE IF s = <<>> THEN FALSE
    ELSE Head(s) = Head(p) /\ StartsWith(Tail(s), Tail(p))

\* str.endswith
EndsWith(s, suf) ==
    /\ Len(suf) <= Len(s)
    /\ SubSeq(s, Len(s) - Len(suf) + 1, Len(s)) = suf

\* `sub in s` on Python strings
Contains(s, sub) ==
    \E i \in 1..(Len(s) + 1) :
        /\ i + Len(sub) - 1 <= Len(s)
        /\ SubSeq(s, i, i + Len(sub) - 1) = sub

\* SQLite folds ASCII case when it compares LIKE operands.
Lower(c) ==
    IF c = "A" THEN "a" ELSE c

\* SQLite's LIKE without an ESCAPE clause: % matches any run of characters,
\* _ matches exactly one, every other character matches itself up to case.
RECURSIVE Like(_, _)
Like(pat, s) ==
    IF pat = <<>> THEN s = <<>>
    ELSE IF Head(pat) = "%"
        THEN \E k \in 0..Len(s) : Like(Tail(pat), SubSeq(s, k + 1, Len(s)))
    ELSE IF s = <<>> THEN FALSE
    ELSE IF Head(pat) = "_" THEN Like(Tail(pat), Tail(s))
    ELSE Lower(Head(pat)) = Lower(Head(s)) /\ Like(Tail(pat), Tail(s))

\* os.path.join(root, filename)
PathJoin(root, filename) == root \o <<"/">> \o filename

\* os.path.basename
RECURSIVE Basename(_)
Basename(p) ==
    IF \E i \in 1..Len(p) : p[i] = "/"
        THEN Basename(Tail(p))
        ELSE p

\* os.path.splitext(filename)[1].lower(), without the dot
RECURSIVE Ext(_)
Ext(p) ==
    IF \E i \in 1..Len(p) : p[i] = "."
        THEN Ext(Tail(p))
        ELSE p

\* ---------------------------------------------------------------- constants of the extractor
SUPPORTED_EXTENSIONS ==
    [e \in {<<"t", "s">>, <<"t", "s", "x">>, <<"j", "s">>, <<"j", "s", "x">>,
            <<"p", "y">>, <<"g", "o">>} |->
        CASE e = <<"t", "s">> -> "typescript"
          [] e = <<"t", "s", "x">> -> "typescript"
          [] e = <<"j", "s">> -> "javascript"
          [] e = <<"j", "s", "x">> -> "javascript"
          [] e = <<"p", "y">> -> "python"
          [] e = <<"g", "o">> -> "go"]

IGNORED_DIRS ==
    {"node_modules", ".git", "__pycache__", ".venv", "venv", "dist", "build",
     ".next", "coverage"}

detect_language(file_path) ==
    IF Ext(file_path) \in DOMAIN SUPPORTED_EXTENSIONS
        THEN SUPPORTED_EXTENSIONS[Ext(file_path)]
        ELSE NULL

\* ---------------------------------------------------------------- files on disk
\* One line of source text, reduced to what the extractor's patterns and
\* block-end scanners look at:
\*   t       which pattern the line matches ("body": none, "blank": empty)
\*   name    the declared name (pattern group 1)
\*   ext     imported module / extends clause / Python base list
\*   impl    implements clause
\*   indent  leading whitespace
\*   braces  the { and } characters of the line, in order
Ln(t, name, ext, impl, indent, braces) ==
    [t |-> t, name |-> name, ext |-> ext, impl |-> impl,
     indent |-> indent, braces |-> braces]

\* A file: its lines, its line terminator, its text encoding, its permission.
Absent == [present |-> FALSE, readable |-> FALSE, eol |-> "lf", enc |-> "utf-8", lines |-> <<>>]

FileOf(lines, eol, enc, readable) ==
    [present |-> TRUE, readable |-> readable, eol |-> eol, enc |-> enc, lines |-> lines]

PyDefFoo == <<Ln("def", "foo", <<>>, <<>>, 0, <<>>), Ln("body", "", <<>>, <<>>, 1, <<>>)>>
PyFromAImportFoo == <<Ln("from_import", "foo", <<"a">>, <<>>, 0, <<>>)>>
PyImportOs == <<Ln("import", "os", <<>>, <<>>, 0, <<>>)>>
PyClassKofB == <<Ln("class", "K", <<"B">>, <<>>, 0, <<>>), Ln("body", "", <<>>, <<>>, 1, <<>>)>>
\* `class K(B):` and `class L(B):`, each with a body line
PyClassesKLofB ==
    <<Ln("class", "K", <<"B">>, <<>>, 0, <<>>), Ln("body", "", <<>>, <<>>, 1, <<>>),
      Ln("class", "L", <<"B">>, <<>>, 0, <<>>), Ln("body", "", <<>>, <<>>, 1, <<>>)>>
TsClassKextendsB == <<Ln("class", "K", <<"B">>, <<"I">>, 0, <<"{">>), Ln("body", "", <<>>, <<>>, 0, <<"}">>)>>
TsExportFunctionFoo == <<Ln("export_function", "foo", <<>>, <<>>, 0, <<"{", "}">>)>>
TsImportA == <<Ln("import", "", <<"a">>, <<>>, 0, <<>>)>>
GoMain == <<Ln("body", "", <<>>, <<>>, 0, <<"{", "}">>)>>
\* `import` followed by blanks only, or by a comma: the imported list has
\* no first name
PyImportBlank == <<Ln("import", "", <<>>, <<>>, 0, <<>>)>>
PyDefFooTwice ==
    <<Ln("def", "foo", <<>>, <<>>, 0, <<>>), Ln("body", "", <<>>, <<>>, 1, <<>>),
      Ln("def", "foo", <<>>, <<>>, 0, <<>>), Ln("body", "", <<>>, <<>>, 1, <<>>)>>
\* `export function foo(s = '}') {` / `}` / `export function bar() {}`
TsBraceInString ==
    <<Ln("export_function", "foo", <<>>, <<>>, 0, <<"}", "{">>),
      Ln("body", "", <<>>, <<>>, 0, <<"}">>),
      Ln("export_function", "bar", <<>>, <<>>, 0, <<"{", "}">>)>>

\* a class with a nested block, closed on its third line
TsNestedBlock ==
    <<Ln("class", "K", <<>>, <<>>, 0, <<"{">>),
      Ln("body", "", <<>>, <<>>, 0, <<"{", "}">>),
      Ln("body", "", <<>>, <<>>, 0, <<"}">>),
      Ln("body", "", <<>>, <<>>, 0, <<>>)>>

\* a function whose block is not closed
TsUnclosedBlock ==
    <<Ln("export_function", "foo", <<>>, <<>>, 0, <<"{">>),
      Ln("body", "", <<>>, <<>>, 0, <<"{", "}">>)>>

TsInterfaceAextendsB == <<Ln("interface", "A", <<"B">>, <<>>, 0, <<"{", "}">>)>>

\* Paths relative to the project directory.
A_PY == <<"a", ".", "p", "y">>
B_PY == <<"b", ".", "p", "y">>
A_TS == <<"a", ".", "t", "s">>
A_TSX == <<"a", ".", "t", "s", "x">>
U_TS == <<"_", ".", "t", "s">>
M_GO == <<"m", ".", "g", "o">>

Paths == {A_PY, B_PY, A_TS, A_TSX, U_TS, M_GO}

\* os.walk visits the directory entries in the order the file system lists them.
WalkOrder == <<A_PY, A_TS, A_TSX, B_PY, M_GO, U_TS>>

\* Paths of files in subdirectories; a directory name is one token.
S_A_TS == <<"s", "/", "a", ".", "t", "s">>
NM_A_TS == <<"node_modules", "/", "a", ".", "t", "s">>
S_DIST_A_PY == <<"s", "/", "dist", "/", "a", ".", "p", "y">>
DIST_S_A_TS == <<"dist", "/", "s", "/", "a", ".", "t", "s">>

TreePaths == {S_A_TS, NM_A_TS, S_DIST_A_PY, DIST_S_A_TS}

AllPaths == Paths \cup TreePaths

\* the order in which a directory lists its files and its subdirectories
ListOrder == WalkOrder \o <<S_A_TS, NM_A_TS, S_DIST_A_PY, DIST_S_A_TS>>
DirNames == <<"dist", "node_modules", "s">>

\* The directory part of a path, <<>> for a file of the top directory.
DirPart(p) ==
    IF \E i \in 1..Len(p) : p[i] = "/"
        THEN SubSeq(p, 1, (CHOOSE i \in 1..Len(p) :
                              p[i] = "/" /\ \A j \in (i + 1)..Len(p) : p[j] # "/") - 1)
        ELSE <<>>

\* the subdirectory name of directory d
Child(d, name) == IF d = <<>> THEN <<name>> ELSE d \o <<"/", name>>

\* The subdirectories of d: the names below which some file exists.
Subdirs(fs, d) ==
    {name \in {DirNames[i] : i \in 1..Len(DirNames)} :
        \E p \in DOMAIN fs :
            fs[p].present /\ StartsWith(p, Child(d, name) \o <<"/">>)}

\* The contents a path may hold.
Versions(p) ==
    CASE p = A_PY -> {FileOf(PyDefFoo, "lf", "utf-8", TRUE),
                      FileOf(PyDefFoo, "crlf", "utf-8", TRUE)}
      [] p = B_PY -> {FileOf(PyFromAImportFoo, "lf", "utf-8", TRUE),
                      FileOf(PyImportOs, "lf", "utf-8", TRUE)}
      [] p = A_TS -> {FileOf(TsClassKextendsB, "lf", "utf-8", TRUE),
                      FileOf(TsExportFunctionFoo, "lf", "utf-8", TRUE)}
      [] p = A_TSX -> {FileOf(TsExportFunctionFoo, "lf", "utf-8", TRUE)}
      [] p = U_TS -> {FileOf(TsImportA, "lf", "utf-8", TRUE)}
      [] p = M_GO -> {FileOf(GoMain, "lf", "utf-8", TRUE),
                      FileOf(GoMain, "lf", "utf-8", FALSE)}
      [] p = S_A_TS -> {FileOf(TsExportFunctionFoo, "lf", "utf-8", TRUE),
                        FileOf(TsExportFunctionFoo, "lf", "utf-8", FALSE)}
      [] p = NM_A_TS -> {FileOf(TsExportFunctionFoo, "lf", "utf-8", TRUE)}
      [] p = S_DIST_A_PY -> {FileOf(PyDefFoo, "lf", "utf-8", TRUE)}
      [] p = DIST_S_A_TS -> {FileOf(TsImportA, "lf", "utf-8", TRUE)}

\* Where the project directory may be mounted.
DIR_P == <<"p">>
DIR_WP == <<"w", "/", "p">>
Dirs == {DIR_P, DIR_WP}

\* os.path.isdir(directory), root being where the project directory is now
isdir(directory, root) == directory = root

Projects == {"P", "Q"}

\* ---------------------------------------------------------------- digests and text
\* hashlib.md5(...).hexdigest(): equal digests exactly for equal bytes.
md5(bytes) == <<"md5", bytes>>

\* open(file_path, 'rb').read()
RawBytes(f) == [lines |-> f.lines, eol |-> f.eol, enc |-> f.enc]

\* compute_file_hash; open() raises for a file that cannot be read.
compute_file_hash(f) ==
    IF f.readable THEN md5(RawBytes(f)) ELSE <<"PermissionError">>

\* bytes.decode(encoding) succeeds: bytes that are not valid UTF-8 decode
\* only as latin-1.
Decodes(f, encoding) ==
    encoding = "latin-1" \/ f.enc = "utf-8"

\* open(file_path, 'r', encoding=...).read(): text mode translates every line
\* terminator to "\n".
ReadText(f) == [lines |-> f.lines, eol |-> "lf"]

\* str.encode(): UTF-8
EncodeUtf8(content) == [lines |-> content.lines, eol |-> content.eol, enc |-> "utf-8"]

\* ---------------------------------------------------------------- data model
make_node_id(kind, file_path, name) ==
    IF name # ""
        THEN <<kind, ".">> \o file_path \o <<":", name>>
        ELSE <<kind, ".">> \o file_path

CodeNode(id, kind, name, file_path, line_start, line_end, language, visibility, hash) ==
    [id |-> id, kind |-> kind, name |-> name, file_path |-> file_path,
     line_start |-> line_start, line_end |-> line_end, signature |-> NULL,
     language |-> language, visibility |-> visibility, hash |-> hash]

\* confidence is kept in tenths: 10 is 1.0, 8 is 0.8; line_number 0 is None
CodeEdge(from_id, to_id, kind, line_number, confidence) ==
    [from_id |-> from_id, to_id |-> to_id, kind |-> kind,
     line_number |-> line_number, confidence |-> confidence]

ExtractionResult(nodes, edges, file_path, file_hash, language, errors) ==
    [nodes |-> nodes, edges |-> edges, file_path |-> file_path,
     file_hash |-> file_hash, language |-> language, errors |-> errors,
     \* the exception that left the extraction, "" when it returned
     raised |-> ""]

\* ---------------------------------------------------------------- RegexExtractor
\* pattern.finditer(content): the 1-indexed lines the pattern matches, in order
\* content.split('\n'): every line of a file ends with its terminator, so
\* the list ends with one empty string
SplitLines(content) == content.lines \o <<Ln("blank", "", <<>>, <<>>, 0, <<>>)>>

Finditer(lines, t) ==
    SelectSeq([i \in 1..Len(lines) |-> i], LAMBDA i : lines[i].t = t)

\* Brace counting from lines[start_line] on (start_line is 0-indexed);
\* i is the 0-indexed line, j the next character of it to read.
RECURSIVE BlockEndScan(_, _, _, _, _)
BlockEndScan(lines, i, j, brace_count, started) ==
    IF i >= Len(lines) THEN Len(lines)
    ELSE IF j > Len(lines[i + 1].braces)
        THEN BlockEndScan(lines, i + 1, 1, brace_count, started)
    ELSE IF lines[i + 1].braces[j] = "{"
        THEN BlockEndScan(lines, i, j + 1, brace_count + 1, TRUE)
    ELSE IF started /\ brace_count - 1 = 0
        THEN i + 1
    ELSE BlockEndScan(lines, i, j + 1, brace_count - 1, started)

_find_block_end(lines, start_line) ==
    BlockEndScan(lines, start_line, 1, 0, FALSE)

RECURSIVE PyBlockEndScan(_, _, _)
PyBlockEndScan(lines, i, start_indent) ==
    IF i >= Len(lines) THEN Len(lines)
    ELSE IF lines[i + 1].t = "blank" THEN PyBlockEndScan(lines, i + 1, start_indent)
    ELSE IF lines[i + 1].t = "comment" THEN PyBlockEndScan(lines, i + 1, start_indent)
    ELSE IF lines[i + 1].indent <= start_indent THEN i
    ELSE PyBlockEndScan(lines, i + 1, start_indent)

_find_python_block_end(lines, start_line) ==
    IF start_line >= Len(lines) THEN start_line + 1
    ELSE PyBlockEndScan(lines, start_line + 1, lines[start_line + 1].indent)

\* the sequences s[1] \o s[2] \o ... of a sequence of sequences
RECURSIVE Flatten(_)
Flatten(ss) ==
    IF ss = <<>> THEN <<>> ELSE Head(ss) \o Flatten(Tail(ss))

FileNode(file_path, language, file_hash) ==
    CodeNode(make_node_id("file", file_path, ""), "file", Basename(file_path),
             file_path, 0, 0, language, NULL, file_hash)

\* Mutant of DefinesEdge: the edge runs from the declaration to the file.
DefinesEdge_Reversed(file_path, node) ==
    CodeEdge(node.id, make_node_id("file", file_path, ""), "defines", 0, 10)

DefinesEdge(file_path, node) ==
    CodeEdge(make_node_id("file", file_path, ""), node.id, "defines", 0, 10)

\* names that start with an underscore
StartsWithUnderscore(name) == name \in {"_h"}

extract_typescript(content, file_path) ==
    LET lines == SplitLines(content)
        file_hash == md5(EncodeUtf8(content))
        file_id == make_node_id("file", file_path, "")
        imports == Finditer(lines, "import")
        functions == Finditer(lines, "export_function")
        arrows == Finditer(lines, "export_const_arrow")
        classes == Finditer(lines, "class")
        interfaces == Finditer(lines, "interface")
        types == Finditer(lines, "type")
        FuncNode(i) ==
            CodeNode(make_node_id("function", file_path, lines[i].name), "function",
                     <<lines[i].name>>, file_path, i, _find_block_end(lines, i - 1),
                     "typescript", "public", NoHash)
        ClassNode(i) ==
            CodeNode(make_node_id("class", file_path, lines[i].name), "class",
                     <<lines[i].name>>, file_path, i, _find_block_end(lines, i - 1),
                     "typescript", "public", NoHash)
        IfaceNode(i) ==
            CodeNode(make_node_id("interface", file_path, lines[i].name), "interface",
                     <<lines[i].name>>, file_path, i, _find_block_end(lines, i - 1),
                     "typescript", NULL, NoHash)
        TypeNode(i) ==
            CodeNode(make_node_id("type", file_path, lines[i].name), "type",
                     <<lines[i].name>>, file_path, i, i, "typescript", NULL, NoHash)
        ClassEdges(i) ==
            <<DefinesEdge(file_path, ClassNode(i))>>
            \o (IF lines[i].ext # <<>>
                  THEN <<CodeEdge(ClassNode(i).id, <<"class", ".", lines[i].ext[1]>>,
                                  "extends", i, 8)>>
                  ELSE <<>>)
            \o [k \in 1..Len(lines[i].impl) |->
                  CodeEdge(ClassNode(i).id, <<"interface", ".", lines[i].impl[k]>>,
                           "implements", i, 8)]
    IN ExtractionResult(
         <<FileNode(file_path, "typescript", file_hash)>>
           \o [k \in 1..Len(functions) |-> FuncNode(functions[k])]
           \o [k \in 1..Len(arrows) |-> FuncNode(arrows[k])]
           \o [k \in 1..Len(classes) |-> ClassNode(classes[k])]
           \o [k \in 1..Len(interfaces) |-> IfaceNode(interfaces[k])]
           \o [k \in 1..Len(types) |-> TypeNode(types[k])],
         [k \in 1..Len(imports) |->
             CodeEdge(file_id, <<"module", ".", lines[imports[k]].ext[1]>>,
                      "imports", imports[k], 10)]
           \o [k \in 1..Len(functions) |-> DefinesEdge(file_path, FuncNode(functions[k]))]
           \o [k \in 1..Len(arrows) |-> DefinesEdge(file_path, FuncNode(arrows[k]))]
           \o Flatten([k \in 1..Len(classes) |-> ClassEdges(classes[k])])
           \o [k \in 1..Len(interfaces) |-> DefinesEdge(file_path, IfaceNode(interfaces[k]))]
           \o [k \in 1..Len(types) |-> DefinesEdge(file_path, TypeNode(types[k]))],
         file_path, file_hash, "typescript", <<>>)

extract_python(content, file_path) ==
    LET lines == SplitLines(content)
        file_hash == md5(EncodeUtf8(content))
        file_id == make_node_id("file", file_path, "")
        \* one pattern matches both `from X import Y` and `import X`
        imports == SelectSeq([i \in 1..Len(lines) |-> i],
                             LAMBDA i : lines[i].t \in {"from_import", "import"})
        functions == Finditer(lines, "def")
        classes == Finditer(lines, "class")
        consts == Finditer(lines, "const")
        ImportTarget(i) ==
            IF lines[i].t = "from_import"
                THEN <<"module", ".", lines[i].ext[1]>>
                ELSE <<"module", ".", lines[i].name>>
        \* imports.split(',')[0].strip().split()[0] on a list with no first name
        IndexError == \E k \in 1..Len(imports) :
                          lines[imports[k]].t = "import" /\ lines[imports[k]].name = ""
        FuncNode(i) ==
            CodeNode(make_node_id("function", file_path, lines[i].name), "function",
                     <<lines[i].name>>, file_path, i, _find_python_block_end(lines, i - 1),
                     "python",
                     IF StartsWithUnderscore(lines[i].name) THEN "private" ELSE "public",
                     NoHash)
        ClassNode(i) ==
            CodeNode(make_node_id("class", file_path, lines[i].name), "class",
                     <<lines[i].name>>, file_path, i, _find_python_block_end(lines, i - 1),
                     "python", NULL, NoHash)
        ConstNode(i) ==
            CodeNode(make_node_id("constant", file_path, lines[i].name), "constant",
                     <<lines[i].name>>, file_path, i, i, "python", NULL, NoHash)
        Bases(i) == SelectSeq(lines[i].ext, LAMBDA b : b # "" /\ b # "object")
        ClassEdges(i) ==
            <<DefinesEdge(file_path, ClassNode(i))>>
            \o [k \in 1..Len(Bases(i)) |->
                  CodeEdge(ClassNode(i).id, <<"class", ".", Bases(i)[k]>>, "extends", i, 8)]
    IN IF IndexError
       THEN [ExtractionResult(<<>>, <<>>, file_path, file_hash, "python", <<>>)
                EXCEPT !.raised = "IndexError"]
       ELSE
       ExtractionResult(
         <<FileNode(file_path, "python", file_hash)>>
           \o [k \in 1..Len(functions) |-> FuncNode(functions[k])]
           \o [k \in 1..Len(classes) |-> ClassNode(classes[k])]
           \o [k \in 1..Len(consts) |-> ConstNode(consts[k])],
         [k \in 1..Len(imports) |->
             CodeEdge(file_id, ImportTarget(imports[k]), "imports", imports[k], 10)]
           \o [k \in 1..Len(functions) |-> DefinesEdge(file_path, FuncNode(functions[k]))]
           \o Flatten([k \in 1..Len(classes) |-> ClassEdges(classes[k])])
           \o [k \in 1..Len(consts) |-> DefinesEdge(file_path, ConstNode(consts[k]))],
         file_path, file_hash, "python", <<>>)

\* ---------------------------------------------------------------- extract_from_file
ErrorResult(file_path, language, msg, arg) ==
    ExtractionResult(<<>>, <<>>, file_path, NoHash, language, <<[msg |-> msg, arg |-> arg]>>)

\* f is what the file system holds at file_path
extract_from_file(file_path, f) ==
    LET language == detect_language(file_path)
    IN  IF ~f.present
            THEN ErrorResult(file_path, "", "File not found", file_path)
        ELSE IF language = NULL
            THEN ErrorResult(file_path, "", "Unsupported file type", file_path)
        ELSE IF ~f.readable
            THEN ErrorResult(file_path, "", "Failed to read file", file_path)
        ELSE IF ~\E encoding \in {"utf-8", "utf-8-sig", "latin-1"} : Decodes(f, encoding)
            THEN ErrorResult(file_path, "", "Failed to decode file", file_path)
        ELSE IF language \in {"typescript", "javascript"}
            THEN extract_typescript(ReadText(f), file_path)
        ELSE IF language = "python"
            THEN extract_python(ReadText(f), file_path)
        ELSE ErrorResult(file_path, language, "Extractor not implemented for", <<language>>)

\* ---------------------------------------------------------------- extract_from_directory
\* dict[key] = value
DictSet(d, key, value) ==
    [k \in (DOMAIN d) \cup {key} |-> IF k = key THEN value ELSE d[k]]

\* os.path.relpath(file_path, directory) for a file below directory
relpath(file_path, directory) ==
    SubSeq(file_path, Len(directory) + 2, Len(file_path))

EmptyWalk ==
    [nodes |-> <<>>, edges |-> <<>>, files_processed |-> 0, files_skipped |-> 0,
     errors |-> <<>>, file_hashes |-> <<>>,
     \* the exception that left the function, "" while there is none
     raised |-> "",
     \* the files handed to extract_from_file, the files skipped, and the
     \* directories os.walk listed
     extracted |-> <<>>, skipped |-> <<>>, visited |-> <<>>]

\* The body of the loop over the files of the directory, for one file.
WalkFile(acc, directory, incremental, file_hashes, fs, filename) ==
    LET f == fs[filename]
        file_path == PathJoin(directory, filename)
        rel_path == relpath(file_path, directory)
        result == extract_from_file(file_path, f)
    IN  IF acc.raised # "" \/ ~f.present THEN acc
        ELSE IF Ext(filename) \notin DOMAIN SUPPORTED_EXTENSIONS THEN acc
        ELSE IF incremental /\ ~f.readable
            THEN [acc EXCEPT !.raised = "PermissionError"]
        ELSE IF /\ incremental
                /\ rel_path \in DOMAIN file_hashes
                /\ file_hashes[rel_path] = compute_file_hash(f)
            THEN [acc EXCEPT !.files_skipped = @ + 1,
                             !.file_hashes = DictSet(@, rel_path, compute_file_hash(f)),
                             !.skipped = Append(@, rel_path)]
        ELSE IF result.raised # ""
            THEN [acc EXCEPT !.raised = result.raised,
                             !.extracted = Append(@, rel_path)]
        ELSE IF Len(result.errors) > 0
            THEN [acc EXCEPT !.errors = @ \o result.errors,
                             !.extracted = Append(@, rel_path)]
        ELSE [acc EXCEPT !.nodes = @ \o result.nodes,
                         !.edges = @ \o result.edges,
                         !.file_hashes = DictSet(@, rel_path, result.file_hash),
                         !.files_processed = @ + 1,
                         !.extracted = Append(@, rel_path)]

\* for filename in files
RECURSIVE WalkFrom(_, _, _, _, _, _, _)
WalkFrom(acc, directory, incremental, file_hashes, fs, files, i) ==
    IF i > Len(files) THEN acc
    ELSE WalkFrom(WalkFile(acc, directory, incremental, file_hashes, fs, files[i]),
                  directory, incremental, file_hashes, fs, files, i + 1)

\* Mutant of PruneDirs: no directory is taken out of dirs.
PruneDirs_KeepAll(dirs) == dirs

\* dirs[:] = [d for d in dirs if d not in IGNORED_DIRS]
PruneDirs(dirs) == SelectSeq(dirs, LAMBDA name : name \notin IGNORED_DIRS)

\* for root, dirs, files in os.walk(directory), from the directory d on:
\* os.walk lists d, the loop body prunes dirs and handles the files, and
\* os.walk then goes down into the directories left in dirs.
RECURSIVE WalkDir(_, _, _, _, _, _)
RECURSIVE WalkDirs(_, _, _, _, _, _, _, _)
WalkDir(acc, directory, incremental, file_hashes, fs, d) ==
    LET files == SelectSeq(ListOrder, LAMBDA p : DirPart(p) = d)
        dirs == PruneDirs(SelectSeq(DirNames, LAMBDA name : name \in Subdirs(fs, d)))
    IN  IF acc.raised # "" THEN acc
        ELSE WalkDirs(WalkFrom([acc EXCEPT !.visited = Append(@, d)],
                               directory, incremental, file_hashes, fs, files, 1),
                      directory, incremental, file_hashes, fs, d, dirs, 1)

WalkDirs(acc, directory, incremental, file_hashes, fs, d, dirs, i) ==
    IF i > Len(dirs) THEN acc
    ELSE WalkDirs(WalkDir(acc, directory, incremental, file_hashes, fs, Child(d, dirs[i])),
                  directory, incremental, file_hashes, fs, d, dirs, i + 1)

extract_from_directory(directory, incremental, file_hashes, fs, root) ==
    IF ~isdir(directory, root)
        THEN [EmptyWalk EXCEPT !.errors = <<[msg |-> "Directory not found", arg |-> directory]>>]
        ELSE WalkDir(EmptyWalk, directory, incremental, file_hashes, fs, <<>>)

\* ---------------------------------------------------------------- the store
\* Three tables; code_nodes is keyed by (id, project), code_edges by
\* (project, from_id, to_id, kind), file_hashes by (project, file_path).
\* The last_updated stamps are left out.
EmptyDb == [code_nodes |-> {}, code_edges |-> {}, file_hashes |-> {}]

NodeRow(node, project) ==
    [id |-> node.id, project |-> project, kind |-> node.kind, name |-> node.name,
     file_path |-> node.file_path, line_start |-> node.line_start,
     line_end |-> node.line_end, signature |-> node.signature,
     language |-> node.language, visibility |-> node.visibility, hash |-> node.hash]

EdgeRow(edge, project) ==
    [project |-> project, from_id |-> edge.from_id, to_id |-> edge.to_id,
     kind |-> edge.kind, line_number |-> edge.line_number,
     confidence |-> edge.confidence]

HashRow(project, file_path, hash, node_count, edge_count) ==
    [project |-> project, file_path |-> file_path, hash |-> hash,
     node_count |-> node_count, edge_count |-> edge_count]

\* INSERT ... ON CONFLICT(id, project) DO UPDATE SET <every other column>
UpsertNode(code_nodes, row) ==
    {r \in code_nodes : ~(r.id = row.id /\ r.project = row.project)} \cup {row}

\* The unique key of code_edges.  The table is created from schema.sql, which
\* the sources load but do not contain; the key is the one the specification
\* gives for the edge table.
code_edges_key(r) == <<r.project, r.from_id, r.to_id, r.kind>>

\* INSERT OR IGNORE INTO code_edges
InsertOrIgnoreEdge(code_edges, row) ==
    IF \E r \in code_edges : code_edges_key(r) = code_edges_key(row)
        THEN code_edges
        ELSE code_edges \cup {row}

\* INSERT ... ON CONFLICT(project, file_path) DO UPDATE SET hash, node_count, edge_count
UpsertHash(file_hashes, row) ==
    {r \in file_hashes : ~(r.project = row.project /\ r.file_path = row.file_path)}
        \cup {row}

\* Mutant of DeleteEdgesLike: only the edges that leave the file node go.
DeleteEdgesLike_FileNodeOnly(code_edges, project, file_path) ==
    {r \in code_edges :
        ~(r.project = project /\ r.from_id = <<"file", ".">> \o file_path)}

\* Mutant of DeleteEdgesLike: the DELETE has no project condition.
DeleteEdgesLike_AnyProject(code_edges, project, file_path) ==
    {r \in code_edges : ~Like(<<"%", ".">> \o file_path \o <<"%">>, r.from_id)}

\* DELETE FROM code_edges WHERE project = ? AND from_id LIKE '%.{file_path}%'
DeleteEdgesLike(code_edges, project, file_path) ==
    {r \in code_edges :
        ~(r.project = project /\ Like(<<"%", ".">> \o file_path \o <<"%">>, r.from_id))}

\* SELECT file_path, hash FROM file_hashes WHERE project = ?, as a dict
SelectHashes(db, project) ==
    LET rows == {r \in db.file_hashes : r.project = project}
    IN  [p \in {r.file_path : r \in rows} |->
            (CHOOSE r \in rows : r.file_path = p).hash]

\* ---------------------------------------------------------------- storage faults
\* A statement of the sync may fail in the storage engine.  A fault names the
\* kind of statement ("node", "delete", "edge", "hash", "commit"), which one of
\* that kind (the n-th executed by the call) and the exception it raises.
NoFault == [op |-> "none", n |-> 0, exc |-> ""]

FaultAt(fault, op, n) ==
    IF fault.op = op /\ fault.n = n THEN fault.exc ELSE ""

\* ---------------------------------------------------------------- sync_from_directory
\* for node in result['nodes']: upsert; acc is the state of the loop
RECURSIVE NodeLoop(_, _, _, _, _)
NodeLoop(acc, project, nodes, i, fault) ==
    IF i > Len(nodes) \/ acc.exc # "" THEN acc
    ELSE IF FaultAt(fault, "node", i) = "IntegrityError"
        \* except sqlite3.IntegrityError: nodes_updated += 1
        THEN NodeLoop([acc EXCEPT !.nodes_updated = @ + 1], project, nodes, i + 1, fault)
    ELSE IF FaultAt(fault, "node", i) # ""
        THEN [acc EXCEPT !.exc = FaultAt(fault, "node", i)]
    ELSE NodeLoop([acc EXCEPT !.code_nodes = UpsertNode(@, NodeRow(nodes[i], project)),
                              !.total_changes = @ + 1,
                              \* if conn.total_changes > 0: nodes_added += 1
                              !.nodes_added = IF acc.total_changes + 1 > 0 THEN @ + 1 ELSE @],
                  project, nodes, i + 1, fault)

\* processed_files and the DELETE issued for each of them
processed_files(nodes) ==
    {nodes[i].file_path : i \in {j \in 1..Len(nodes) : nodes[j].kind = "file"}}

RECURSIVE DeleteAll(_, _, _)
DeleteAll(code_edges, project, files) ==
    IF files = {} THEN code_edges
    ELSE LET fp == CHOOSE x \in files : TRUE
         IN  DeleteAll(DeleteEdgesLike(code_edges, project, fp), project, files \ {fp})

DeleteOldEdges(code_edges, project, nodes) ==
    DeleteAll(code_edges, project, processed_files(nodes))

\* for edge in result['edges']: INSERT OR IGNORE
RECURSIVE EdgeLoop(_, _, _, _, _)
EdgeLoop(acc, project, edges, i, fault) ==
    IF i > Len(edges) \/ acc.exc # "" THEN acc
    ELSE IF FaultAt(fault, "edge", i) = "IntegrityError"
        \* except sqlite3.IntegrityError: pass
        THEN EdgeLoop(acc, project, edges, i + 1, fault)
    ELSE IF FaultAt(fault, "edge", i) # ""
        THEN [acc EXCEPT !.exc = FaultAt(fault, "edge", i)]
    ELSE EdgeLoop([acc EXCEPT !.code_edges = InsertOrIgnoreEdge(@, EdgeRow(edges[i], project)),
                              !.edges_added = @ + 1],
                  project, edges, i + 1, fault)

\* sum(1 for x in xs if Test(x))
Count(xs, Test(_)) == Len(SelectSeq(xs, Test))

node_count(result, file_path) ==
    Count(result.nodes,
          LAMBDA n : n.file_path = file_path \/ EndsWith(n.file_path, file_path))

edge_count(result, file_path) ==
    Count(result.edges, LAMBDA e : Contains(e.from_id, file_path))

\* for file_path, hash_val in result['file_hashes'].items(): upsert
RECURSIVE HashLoop(_, _, _, _, _, _)
HashLoop(acc, project, result, todo, i, fault) ==
    IF todo = {} \/ acc.exc # "" THEN acc
    ELSE LET file_path == CHOOSE x \in todo : TRUE
         IN  IF FaultAt(fault, "hash", i) # ""
                 THEN [acc EXCEPT !.exc = FaultAt(fault, "hash", i)]
                 ELSE HashLoop(
                        [acc EXCEPT !.file_hashes =
                            UpsertHash(@, HashRow(project, file_path,
                                                  result.file_hashes[file_path],
                                                  node_count(result, file_path),
                                                  edge_count(result, file_path)))],
                        project, result, todo \ {file_path}, i + 1, fault)

SyncResult(nodes_added, nodes_updated, edges_added, files_processed, files_skipped, errors) ==
    [nodes_added |-> nodes_added, nodes_updated |-> nodes_updated,
     edges_added |-> edges_added, files_processed |-> files_processed,
     files_skipped |-> files_skipped, errors |-> errors]

\* What one call does: the store it leaves, whether it returned or raised,
\* what it returned, and the walk result it worked from.
Outcome(db, outcome, exc, ret, walk, committed) ==
    [db |-> db, outcome |-> outcome, exc |-> exc, ret |-> ret, walk |-> walk,
     committed |-> committed]

NoResult == SyncResult(0, 0, 0, 0, 0, <<>>)

\* The write phase on the connection's view of the store, up to (not
\* including) the commit: the three loops and the delete between them.
WritePhase(db, project, result, fault) ==
    LET n == NodeLoop([code_nodes |-> db.code_nodes, nodes_added |-> 0,
                       nodes_updated |-> 0, total_changes |-> 0, exc |-> ""],
                      project, result.nodes, 1, fault)
        delExc == IF processed_files(result.nodes) # {} THEN FaultAt(fault, "delete", 1) ELSE ""
        e == EdgeLoop([code_edges |-> DeleteOldEdges(db.code_edges, project, result.nodes),
                       edges_added |-> 0, exc |-> ""],
                      project, result.edges, 1, fault)
        h == HashLoop([file_hashes |-> db.file_hashes, exc |-> ""],
                      project, result, DOMAIN result.file_hashes, 1, fault)
        exc == IF n.exc # "" THEN n.exc
               ELSE IF delExc # "" THEN delExc
               ELSE IF e.exc # "" THEN e.exc
               ELSE h.exc
    IN  [db |-> [code_nodes |-> n.code_nodes, code_edges |-> e.code_edges,
                 file_hashes |-> h.file_hashes],
         exc |-> exc,
         ret |-> SyncResult(n.nodes_added, n.nodes_updated, e.edges_added,
                            result.files_processed, result.files_skipped, <<>>)]

sync_from_directory(db, fs, root, project, directory, incremental, fault) ==
    LET existing_hashes == IF incremental THEN SelectHashes(db, project) ELSE <<>>
        result == extract_from_directory(directory, incremental, existing_hashes, fs, root)
        w == WritePhase(db, project, result, fault)
    IN  IF result.raised # ""
            THEN Outcome(db, "raised", result.raised, NoResult, result, FALSE)
        ELSE IF Len(result.errors) > 0
            THEN Outcome(db, "returned", "",
                         SyncResult(0, 0, 0, 0, 0, result.errors), result, FALSE)
        ELSE IF w.exc # ""
            \* the exception leaves the function; finally: conn.close() drops
            \* the uncommitted transaction
            THEN Outcome(db, "raised", w.exc, NoResult, result, FALSE)
        ELSE IF FaultAt(fault, "commit", 1) # ""
            THEN Outcome(db, "raised", FaultAt(fault, "commit", 1), NoResult, result, FALSE)
        ELSE Outcome(w.db, "returned", "", w.ret, result, TRUE)

\* ---------------------------------------------------------------- state
VARIABLES
    fs,       \* the files of the project directory: path -> file
    root,     \* where the project directory is mounted
    db,       \* the committed store
    last,     \* the latest sync_from_directory call and what it did
    prev,     \* the call before it
    nSteps,   \* calls made and changes made to the directory
    proc,     \* the calls in flight, one per client process
    lock,     \* the process holding the write lock of the database file, 0 if none
    base,     \* the committed store when the calls in flight began
    ex,       \* the extract_from_file calls made directly, oldest first
    project_edges,  \* the rows of table project_edges, in rowid order
    nb,       \* the latest get_neighbors call and what it returned
    tasks,    \* the rows of table tasks: task id -> row
    rejections,     \* how often finish_validation rejected each task
    lifecycle,      \* the latest finish_task / finish_validation call
    dep       \* the latest get_code_dependencies call and what it returned

\* the store of the project graph and the latest get_neighbors call
graphVars == <<project_edges, nb>>

\* the task table, the rejections each task received, the latest lifecycle call
taskVars == <<tasks, rejections, lifecycle>>

vars == <<fs, root, db, last, prev, nSteps, proc, lock, base, ex,
          graphVars, taskVars, dep>>

\* no call to the project graph, the task lifecycle or the dependency query
\* has been made, and their tables are empty
NoOtherCalls ==
    /\ project_edges = <<>>
    /\ nb = [valid |-> FALSE]
    /\ tasks = <<>>
    /\ rejections = <<>>
    /\ lifecycle = [valid |-> FALSE]
    /\ dep = [valid |-> FALSE]

AllVersions == UNION {Versions(p) : p \in Paths}

\* The directories with at most MaxFiles files.
FileSystems ==
    UNION {
        {[p \in AllPaths |-> IF p \in S THEN c[p] ELSE Absent] :
            c \in {d \in [S -> AllVersions] : \A p \in S : d[p] \in Versions(p)}} :
        S \in {T \in SUBSET Paths : Cardinality(T) <= MaxFiles}}

Procs == {1, 2}

\* a process that is not inside sync_from_directory
IdleProc ==
    [pc |-> "idle", project |-> "", incremental |-> FALSE,
     existing_hashes |-> <<>>, result |-> EmptyWalk,
     txn |-> EmptyDb, begin_db |-> EmptyDb, writing |-> FALSE, overlapped |-> FALSE,
     ret |-> NoResult, outcome |-> "", exc |-> ""]

NoCall ==
    [valid |-> FALSE, project |-> "", directory |-> <<>>, incremental |-> FALSE,
     fault |-> NoFault, pre |-> EmptyDb, fs |-> [p \in AllPaths |-> Absent],
     out |-> Outcome(EmptyDb, "", "", NoResult, EmptyWalk, FALSE)]

Call(project, directory, incremental, fault, pre, files, out) ==
    [valid |-> TRUE, project |-> project, directory |-> directory,
     incremental |-> incremental, fault |-> fault, pre |-> pre, fs |-> files,
     out |-> out]

Init ==
    /\ fs \in FileSystems
    /\ root = DIR_P
    /\ db = EmptyDb
    /\ last = NoCall
    /\ prev = NoCall
    /\ nSteps = 0
    /\ proc = [p \in Procs |-> IdleProc]
    /\ lock = 0
    /\ base = EmptyDb
    /\ ex = <<>>
    /\ NoOtherCalls

\* A file of the directory is created, rewritten, chmod-ed or removed.
Edit(p, v) ==
    /\ nSteps < MaxSteps
    /\ v # fs[p]
    /\ Cardinality({q \in Paths : q # p /\ fs[q].present}) + (IF v.present THEN 1 ELSE 0)
          <= MaxFiles
    /\ fs' = [fs EXCEPT ![p] = v]
    /\ nSteps' = nSteps + 1
    /\ UNCHANGED <<root, db, last, prev, proc, lock, base, ex, graphVars, taskVars, dep>>

\* The project directory is moved to another mount point.
Remount(d) ==
    /\ nSteps < MaxSteps
    /\ d # root
    /\ root' = d
    /\ nSteps' = nSteps + 1
    /\ UNCHANGED <<fs, db, last, prev, proc, lock, base, ex, graphVars, taskVars, dep>>

\* One whole call of sync_from_directory.
Sync(project, directory, incremental, fault) ==
    /\ nSteps < MaxSteps
    /\ LET out == sync_from_directory(db, fs, root, project, directory, incremental, fault)
       IN  /\ db' = out.db
           /\ last' = Call(project, directory, incremental, fault, db, fs, out)
    /\ prev' = last
    /\ nSteps' = nSteps + 1
    /\ UNCHANGED <<fs, root, proc, lock, base, ex, graphVars, taskVars, dep>>

EditFile == \E p \in Paths : \E v \in Versions(p) \cup {Absent} : Edit(p, v)

MoveDirectory == \E d \in Dirs : Remount(d)

SyncProject == \E incremental \in BOOLEAN : Sync("P", root, incremental, NoFault)

Next == EditFile \/ MoveDirectory \/ SyncProject

Spec == Init /\ [][Next]_vars

\* ---------------------------------------------------------------- concurrent calls
\* Two client processes call sync_from_directory on the same database file.
\* Each call is a sequence of steps: read the known hashes, walk the
\* directory, upsert the nodes, delete the old edges, insert the edges, upsert
\* the hashes, commit.

\* Mutant of isolation_level: every statement commits on its own.
isolation_level_None == "autocommit"

\* sqlite3.connect(DB_PATH) leaves isolation_level at its default: the
\* connection opens a deferred transaction before its first INSERT, UPDATE or
\* DELETE, that statement takes the write lock of the database file, and the
\* lock is held until commit().
isolation_level == "deferred"

InFlight(p) == proc[p].pc \notin {"idle", "done"}

\* The store as the connection of p sees it.
View(p) ==
    IF isolation_level = "deferred" /\ lock = p THEN proc[p].txn ELSE db

\* the step at which the call stands executes at least one write statement
HasStatement(c) ==
    CASE c.pc = "nodes" -> Len(c.result.nodes) > 0
      [] c.pc = "delete" -> processed_files(c.result.nodes) # {}
      [] c.pc = "edges" -> Len(c.result.edges) > 0
      [] c.pc = "file_hashes" -> DOMAIN c.result.file_hashes # {}
      [] OTHER -> FALSE

\* The statements of one step run on the connection of p and leave new_view.
Execute(p, to, new_view, ret) ==
    IF ~HasStatement(proc[p])
        THEN /\ proc' = [proc EXCEPT ![p].pc = to, ![p].ret = ret]
             /\ UNCHANGED <<db, lock>>
    ELSE IF isolation_level = "autocommit"
        THEN /\ db' = new_view
             /\ proc' = [proc EXCEPT ![p].pc = to, ![p].ret = ret,
                                     ![p].begin_db = IF proc[p].writing THEN @ ELSE db,
                                     ![p].writing = TRUE]
             /\ UNCHANGED lock
    ELSE /\ lock \in {0, p}
         /\ lock' = p
         /\ proc' = [proc EXCEPT ![p].pc = to, ![p].ret = ret,
                                 ![p].txn = new_view,
                                 ![p].begin_db = IF proc[p].writing THEN @ ELSE db,
                                 ![p].writing = TRUE]
         /\ UNCHANGED db

\* sync_from_directory is entered.
Start(p, project, incremental) ==
    /\ nSteps < MaxSteps
    /\ proc[p].pc = "idle"
    /\ proc' = [q \in Procs |->
                  IF q = p
                      THEN [IdleProc EXCEPT !.pc = "hashes", !.project = project,
                                            !.incremental = incremental,
                                            !.overlapped = \E r \in Procs \ {p} : InFlight(r)]
                  ELSE IF InFlight(q) THEN [proc[q] EXCEPT !.overlapped = TRUE]
                  ELSE proc[q]]
    /\ nSteps' = nSteps + 1
    /\ UNCHANGED <<fs, root, db, last, prev, lock, base, ex, graphVars, taskVars, dep>>

\* existing_hashes is read, outside any transaction.
ReadHashes(p) ==
    /\ proc[p].pc = "hashes"
    /\ proc' = [proc EXCEPT ![p].pc = "walk",
                            ![p].existing_hashes =
                                IF proc[p].incremental
                                    THEN SelectHashes(db, proc[p].project) ELSE <<>>]
    /\ UNCHANGED <<fs, root, db, last, prev, nSteps, lock, base, ex, graphVars, taskVars, dep>>

\* extract_from_directory runs; an exception or an error entry ends the call.
Walk(p) ==
    /\ proc[p].pc = "walk"
    /\ LET result == extract_from_directory(root, proc[p].incremental,
                                            proc[p].existing_hashes, fs, root)
       IN  proc' = [proc EXCEPT ![p] =
                IF result.raised # ""
                    THEN [@ EXCEPT !.pc = "done", !.outcome = "raised",
                                   !.exc = result.raised, !.result = result]
                ELSE IF Len(result.errors) > 0
                    THEN [@ EXCEPT !.pc = "done", !.outcome = "returned",
                                   !.ret = SyncResult(0, 0, 0, 0, 0, result.errors),
                                   !.result = result]
                ELSE [@ EXCEPT !.pc = "nodes", !.result = result,
                               !.ret = SyncResult(0, 0, 0, result.files_processed,
                                                  result.files_skipped, <<>>)]]
    /\ UNCHANGED <<fs, root, db, last, prev, nSteps, lock, base, ex, graphVars, taskVars, dep>>

\* for node in result['nodes']
WriteNodes(p) ==
    /\ proc[p].pc = "nodes"
    /\ LET c == proc[p]
           n == NodeLoop([code_nodes |-> View(p).code_nodes, nodes_added |-> 0,
                          nodes_updated |-> 0, total_changes |-> 0, exc |-> ""],
                         c.project, c.result.nodes, 1, NoFault)
       IN  Execute(p, "delete",
                   [View(p) EXCEPT !.code_nodes = n.code_nodes],
                   [c.ret EXCEPT !.nodes_added = n.nodes_added,
                                 !.nodes_updated = n.nodes_updated])
    /\ UNCHANGED <<fs, root, last, prev, nSteps, base, ex, graphVars, taskVars, dep>>

\* for file_path in processed_files: DELETE
DeleteEdges(p) ==
    /\ proc[p].pc = "delete"
    /\ LET c == proc[p]
       IN  Execute(p, "edges",
                   [View(p) EXCEPT !.code_edges =
                        DeleteOldEdges(@, c.project, c.result.nodes)],
                   c.ret)
    /\ UNCHANGED <<fs, root, last, prev, nSteps, base, ex, graphVars, taskVars, dep>>

\* for edge in result['edges']
InsertEdges(p) ==
    /\ proc[p].pc = "edges"
    /\ LET c == proc[p]
           e == EdgeLoop([code_edges |-> View(p).code_edges, edges_added |-> 0,
                          exc |-> ""],
                         c.project, c.result.edges, 1, NoFault)
       IN  Execute(p, "file_hashes",
                   [View(p) EXCEPT !.code_edges = e.code_edges],
                   [c.ret EXCEPT !.edges_added = e.edges_added])
    /\ UNCHANGED <<fs, root, last, prev, nSteps, base, ex, graphVars, taskVars, dep>>

\* for file_path, hash_val in result['file_hashes'].items()
WriteHashes(p) ==
    /\ proc[p].pc = "file_hashes"
    /\ LET c == proc[p]
           h == HashLoop([file_hashes |-> View(p).file_hashes, exc |-> ""],
                         c.project, c.result, DOMAIN c.result.file_hashes, 1, NoFault)
       IN  Execute(p, "commit",
                   [View(p) EXCEPT !.file_hashes = h.file_hashes],
                   c.ret)
    /\ UNCHANGED <<fs, root, last, prev, nSteps, base, ex, graphVars, taskVars, dep>>

\* conn.commit(), the return and conn.close()
Commit(p) ==
    /\ proc[p].pc = "commit"
    /\ db' = View(p)
    /\ lock' = IF lock = p THEN 0 ELSE lock
    /\ proc' = [proc EXCEPT ![p].pc = "done", ![p].outcome = "returned",
                            ![p].writing = FALSE]
    /\ UNCHANGED <<fs, root, last, prev, nSteps, base, ex, graphVars, taskVars, dep>>

\* Another connection holds the write lock for longer than the busy timeout:
\* the statement raises OperationalError (database is locked), the exception
\* leaves sync_from_directory and conn.close() ends the connection.
BusyTimeout(p) ==
    /\ isolation_level = "deferred"
    /\ HasStatement(proc[p])
    /\ lock \notin {0, p}
    /\ proc' = [proc EXCEPT ![p].pc = "done", ![p].outcome = "raised",
                            ![p].exc = "OperationalError"]
    /\ UNCHANGED <<fs, root, db, last, prev, nSteps, lock, base, ex, graphVars, taskVars, dep>>

\* Every call has ended; the processes may call again.
NewRound ==
    /\ \A p \in Procs : ~InFlight(p)
    /\ \E p \in Procs : proc[p].pc = "done"
    /\ proc' = [p \in Procs |-> IdleProc]
    /\ base' = db
    /\ UNCHANGED <<fs, root, db, last, prev, nSteps, lock, ex, graphVars, taskVars, dep>>

\* The directories that hold only a.ts and a.tsx.
TsPaths == {A_TS, A_TSX}

InitTs ==
    /\ Init
    /\ \A p \in Paths \ TsPaths : ~fs[p].present

EditBetweenCalls ==
    /\ \A p \in Procs : proc[p].pc = "idle"
    /\ \E p \in TsPaths : \E v \in Versions(p) \cup {Absent} : Edit(p, v)

StartSync ==
    \E p \in Procs : \E project \in Projects : \E incremental \in BOOLEAN :
        Start(p, project, incremental)

StepSync ==
    \E p \in Procs :
        \/ ReadHashes(p)
        \/ Walk(p)
        \/ WriteNodes(p)
        \/ DeleteEdges(p)
        \/ InsertEdges(p)
        \/ WriteHashes(p)
        \/ Commit(p)
        \/ BusyTimeout(p)

NextConc == EditBetweenCalls \/ StartSync \/ StepSync \/ NewRound

SpecConc == InitTs /\ [][NextConc]_vars

\* One process on a store whose statements may fail: a constraint other
\* than the key conflict rejects a row (IntegrityError), or the engine fails
\* the statement (OperationalError).
Faults ==
    {[op |-> "node", n |-> 1, exc |-> "IntegrityError"],
     [op |-> "edge", n |-> 1, exc |-> "IntegrityError"],
     [op |-> "hash", n |-> 1, exc |-> "IntegrityError"],
     [op |-> "node", n |-> 1, exc |-> "OperationalError"],
     [op |-> "delete", n |-> 1, exc |-> "OperationalError"],
     [op |-> "edge", n |-> 1, exc |-> "OperationalError"],
     [op |-> "hash", n |-> 1, exc |-> "OperationalError"],
     [op |-> "commit", n |-> 1, exc |-> "OperationalError"]}

SyncOnFailingStore ==
    \E incremental \in BOOLEAN : \E fault \in Faults \cup {NoFault} :
        Sync("P", root, incremental, fault)

NextFault == EditBetweenCalls \/ SyncOnFailingStore

SpecFault == InitTs /\ [][NextFault]_vars

\* One process on project directories that have subdirectories.
WalkPaths == TreePaths \cup {A_TS, M_GO}

TreeFileSystems ==
    UNION {
        {[p \in AllPaths |-> IF p \in S THEN c[p] ELSE Absent] :
            c \in {d \in [S -> UNION {Versions(p) : p \in S}] :
                      \A p \in S : d[p] \in Versions(p)}} :
        S \in {T \in SUBSET WalkPaths : Cardinality(T) <= MaxFiles}}

InitWalk ==
    /\ fs \in TreeFileSystems
    /\ root = DIR_P
    /\ db = EmptyDb
    /\ last = NoCall
    /\ prev = NoCall
    /\ nSteps = 0
    /\ proc = [p \in Procs |-> IdleProc]
    /\ lock = 0
    /\ base = EmptyDb
    /\ ex = <<>>
    /\ NoOtherCalls

EditTree == \E p \in WalkPaths : \E v \in Versions(p) \cup {Absent} : Edit(p, v)

NextWalk == EditTree \/ SyncProject

SpecWalk == InitWalk /\ [][NextWalk]_vars

\* extract_from_file called directly, and the node-upsert step of
\* sync_from_directory applied to what it returned.
R_MD == <<"r", ".", "m", "d">>

\* the calls extract_from_file(file_path) made, with the file found there
ExtractInputs ==
    ({A_PY} \X {Absent,
                 FileOf(PyDefFoo, "lf", "utf-8", TRUE),
                 FileOf(PyDefFoo, "crlf", "latin-1", TRUE),
                 FileOf(PyDefFoo, "lf", "utf-8", FALSE),
                 FileOf(PyDefFooTwice, "lf", "utf-8", TRUE),
                 FileOf(PyClassKofB, "lf", "utf-8", TRUE),
                 FileOf(PyFromAImportFoo, "lf", "utf-8", TRUE),
                 FileOf(PyImportBlank, "lf", "utf-8", TRUE)})
    \cup ({A_TS} \X {FileOf(TsClassKextendsB, "lf", "utf-8", TRUE),
                      FileOf(TsInterfaceAextendsB, "lf", "utf-8", TRUE),
                      FileOf(TsExportFunctionFoo, "lf", "utf-8", TRUE),
                      FileOf(TsImportA, "lf", "utf-8", TRUE),
                      FileOf(TsBraceInString, "lf", "utf-8", TRUE),
                      FileOf(TsNestedBlock, "lf", "utf-8", TRUE),
                      FileOf(TsUnclosedBlock, "lf", "utf-8", TRUE)})
    \cup ({M_GO} \X {FileOf(GoMain, "lf", "utf-8", TRUE)})
    \cup ({R_MD} \X {FileOf(GoMain, "lf", "utf-8", TRUE)})

InitExtract ==
    /\ Init
    /\ \A p \in AllPaths : ~fs[p].present

Extract(file_path, f) ==
    /\ nSteps < MaxSteps
    /\ ex' = Append(ex, [file_path |-> file_path, file |-> f,
                         result |-> extract_from_file(file_path, f)])
    /\ nSteps' = nSteps + 1
    /\ UNCHANGED <<fs, root, db, last, prev, proc, lock, base, graphVars, taskVars, dep>>

\* the node-upsert step on a list of nodes
MergeNodeList(code_nodes, project, nodes) ==
    NodeLoop([code_nodes |-> code_nodes, nodes_added |-> 0, nodes_updated |-> 0,
              total_changes |-> 0, exc |-> ""],
             project, nodes, 1, NoFault).code_nodes

\* The nodes of an earlier extraction are merged into the node table.
MergeNodes(i) ==
    /\ nSteps < MaxSteps
    /\ Len(ex[i].result.nodes) > 0
    /\ db' = [db EXCEPT !.code_nodes = MergeNodeList(@, "P", ex[i].result.nodes)]
    /\ nSteps' = nSteps + 1
    /\ UNCHANGED <<fs, root, last, prev, proc, lock, base, ex, graphVars, taskVars, dep>>

ExtractFile == \E input \in ExtractInputs : Extract(input[1], input[2])

MergeExtracted == \E i \in 1..Len(ex) : MergeNodes(i)

NextExtract == ExtractFile \/ MergeExtracted

SpecExtract == InitExtract /\ [][NextExtract]_vars

\* ---------------------------------------------------------------- reading the store
\* id is the id of the file node of file_path or of a declaration of it:
\* <kind>.<file_path> or <kind>.<file_path>:<name>
OwnsId(file_path, id) ==
    /\ Len(id) >= 2 + Len(file_path)
    /\ id[2] = "."
    /\ SubSeq(id, 3, 2 + Len(file_path)) = file_path
    /\ \/ Len(id) = 2 + Len(file_path)
       \/ /\ Len(id) = 4 + Len(file_path)
          /\ id[3 + Len(file_path)] = ":"

NodesOf(code_nodes, project, file_path) ==
    {r \in code_nodes : r.project = project /\ r.file_path = file_path}

EdgesOf(code_edges, project, file_path) ==
    {r \in code_edges : r.project = project /\ OwnsId(file_path, r.from_id)}

EdgeKey(r) == <<r.from_id, r.to_id, r.kind>>

Range(seq) == {seq[i] : i \in 1..Len(seq)}

\* the supported files present in a directory
Eligible(files) ==
    {p \in Paths : files[p].present /\ Ext(p) \in DOMAIN SUPPORTED_EXTENSIONS}

\* the latest call went through its write phase and committed
Committed(call) == call.valid /\ call.out.committed

\* the file at path F was reprocessed by the call: it is one of processed_files
Reprocessed(call, F) ==
    /\ Committed(call)
    /\ PathJoin(call.directory, F) \in processed_files(call.out.walk.nodes)

\* ---------------------------------------------------------------- claims
\* C1: after a sync that reprocessed file F, the stored edges of the project
\* whose from_id is F's file node or one of F's declaration nodes are exactly
\* the edges extracted from F's current content; no edge an earlier sync
\* stored for F and the new extraction no longer produces is left.
C1_EdgesReplaced ==
    \A F \in Paths :
        Reprocessed(last, F) =>
            LET file_path == PathJoin(last.directory, F)
                extracted == extract_from_file(file_path, last.fs[F]).edges
            IN  {EdgeKey(r) : r \in EdgesOf(db.code_edges, last.project, file_path)}
                  = {EdgeKey(e) : e \in Range(extracted)}

\* C1 witness: a reprocessed file had a stored edge that its new content no
\* longer produces, and the edge is gone.
C1_Witness ==
    \E F \in Paths :
        /\ Reprocessed(last, F)
        /\ \E r \in EdgesOf(last.pre.code_edges, last.project, PathJoin(last.directory, F)) :
              /\ EdgeKey(r) \notin
                    {EdgeKey(e) : e \in Range(extract_from_file(PathJoin(last.directory, F),
                                                                last.fs[F]).edges)}
              /\ r \notin db.code_edges

\* the paths whose file differs between two directory states
ChangedFiles(before, after) == {p \in Paths : before[p] # after[p]}

\* call is an incremental sync of the project and directory of the committed
\* call before it
FollowsUp(before, call) ==
    /\ Committed(before)
    /\ call.valid
    /\ call.incremental
    /\ call.project = before.project
    /\ call.directory = before.directory

\* C2: in an incremental sync where exactly one file F changed since the
\* previous successful sync, files_processed = 1, every other eligible file
\* is counted in files_skipped, and every stored node and edge owned by any
\* other file G is the same before and after the sync.
C2_IncrementalFrame ==
    \A F \in Paths :
        ( /\ FollowsUp(prev, last)
          /\ ChangedFiles(prev.fs, last.fs) = {F}
          /\ prev.fs[F].present
          /\ last.fs[F].present )
        =>
        /\ last.out.outcome = "returned"
        /\ last.out.ret.files_processed = 1
        /\ last.out.ret.files_skipped = Cardinality(Eligible(last.fs) \ {F})
        /\ \A G \in Paths \ {F} :
              LET file_path == PathJoin(last.directory, G)
              IN  /\ NodesOf(db.code_nodes, last.project, file_path)
                        = NodesOf(last.pre.code_nodes, last.project, file_path)
                  /\ EdgesOf(db.code_edges, last.project, file_path)
                        = EdgesOf(last.pre.code_edges, last.project, file_path)

\* C3: a second incremental sync right after a committed incremental sync
\* of the same unchanged directory processes no file, skips every eligible
\* file, reports nodes_added = 0 and edges_added = 0 and leaves the stored
\* nodes and edges unchanged; the hash the first run recorded for a file is the digest the
\* change detector computes for it.
C3_SecondRunIsNoop ==
    ( /\ FollowsUp(prev, last)
      /\ prev.incremental
      /\ last.fs = prev.fs )
    =>
    /\ last.out.outcome = "returned"
    /\ last.out.ret.files_processed = 0
    /\ last.out.ret.files_skipped = Cardinality(Eligible(last.fs))
    /\ last.out.ret.nodes_added = 0
    /\ last.out.ret.edges_added = 0
    /\ db.code_nodes = last.pre.code_nodes
    /\ db.code_edges = last.pre.code_edges
    /\ \A F \in Eligible(last.fs) :
          /\ F \in DOMAIN SelectHashes(last.pre, last.project)
          /\ SelectHashes(last.pre, last.project)[F] = compute_file_hash(last.fs[F])

\* C4: when extraction fails for one file and succeeds for others, the sync
\* persists and counts the nodes, edges and hash records of the others and
\* returns a non-empty errors list.
C4_PartialSuccess ==
    ( /\ last.valid
      /\ last.out.outcome = "returned"
      /\ Len(last.out.walk.errors) > 0
      /\ last.out.walk.files_processed > 0 )
    =>
    LET walk == last.out.walk
    IN  /\ Len(last.out.ret.errors) > 0
        /\ last.out.ret.files_processed = walk.files_processed
        /\ \A n \in Range(walk.nodes) : NodeRow(n, last.project) \in db.code_nodes
        /\ \A e \in Range(walk.edges) :
              EdgeKey(e) \in {EdgeKey(r) : r \in {x \in db.code_edges : x.project = last.project}}
        /\ \A F \in DOMAIN walk.file_hashes :
              \E r \in db.file_hashes :
                  r.project = last.project /\ r.file_path = F /\ r.hash = walk.file_hashes[F]

\* C5: after a committed full rebuild the project's stored nodes, edges and
\* hash records are exactly those derived from the files now in the
\* directory.
C5_FullRebuildExact ==
    ( Committed(last) /\ ~last.incremental )
    =>
    LET walk == last.out.walk
    IN  /\ {r \in db.code_nodes : r.project = last.project}
              = {NodeRow(n, last.project) : n \in Range(walk.nodes)}
        /\ {EdgeKey(r) : r \in {x \in db.code_edges : x.project = last.project}}
              = {EdgeKey(e) : e \in Range(walk.edges)}
        /\ {r.file_path : r \in {x \in db.file_hashes : x.project = last.project}}
              = DOMAIN walk.file_hashes

\* The directory of the example: a.py holds `def foo(): pass`, b.py holds
\* `from a import foo`.
ExampleDirectory ==
    [p \in AllPaths |->
        IF p = A_PY THEN FileOf(PyDefFoo, "lf", "utf-8", TRUE)
        ELSE IF p = B_PY THEN FileOf(PyFromAImportFoo, "lf", "utf-8", TRUE)
        ELSE Absent]

\* C9: every node id and edge from_id a sync stores is built from the path
\* relative to the synced root; for the example directory a full sync stores
\* the nodes file.a.py, file.b.py and function.a.py:foo, the defines edge
\* file.a.py -> function.a.py:foo and the imports edge file.b.py -> module.a.
C9_RelativeIds ==
    Committed(last) =>
        LET nodes == {r \in db.code_nodes : r.project = last.project}
            edges == {r \in db.code_edges : r.project = last.project}
        IN  /\ \A r \in nodes : \E F \in Paths : OwnsId(F, r.id)
            /\ \A r \in edges : \E F \in Paths : OwnsId(F, r.from_id)
            /\ (~last.incremental /\ last.fs = ExampleDirectory) =>
                  /\ make_node_id("file", A_PY, "") \in {r.id : r \in nodes}
                  /\ make_node_id("file", B_PY, "") \in {r.id : r \in nodes}
                  /\ make_node_id("function", A_PY, "foo") \in {r.id : r \in nodes}
                  /\ <<make_node_id("file", A_PY, ""), make_node_id("function", A_PY, "foo"),
                       "defines">> \in {EdgeKey(r) : r \in edges}
                  /\ <<make_node_id("file", B_PY, ""), <<"module", ".", "a">>, "imports">>
                        \in {EdgeKey(r) : r \in edges}

\* C10: in an incremental walk a supported file is skipped exactly when the
\* known-hash map holds its current digest under its root-relative path; a
\* skipped file is not passed to the extractor, contributes no nodes or
\* edges, is counted in files_skipped and keeps its hash in the returned map;
\* every other supported file is passed to the extractor; a walk that is not
\* incremental skips no file.
C10_SkipExactlyUnchanged ==
    last.valid =>
        LET walk == last.out.walk
            known == IF last.incremental THEN SelectHashes(last.pre, last.project) ELSE <<>>
            Unchanged(F) ==
                /\ last.incremental
                /\ F \in DOMAIN known
                /\ last.fs[F].readable
                /\ known[F] = compute_file_hash(last.fs[F])
        IN  /\ \A F \in Eligible(last.fs) :
                  /\ (F \in Range(walk.skipped)) <=> Unchanged(F)
                  /\ F \in Range(walk.skipped) =>
                        /\ F \notin Range(walk.extracted)
                        /\ F \in DOMAIN walk.file_hashes
                        /\ walk.file_hashes[F] = known[F]
                        /\ \A n \in Range(walk.nodes) :
                              n.file_path # PathJoin(last.directory, F)
                        /\ \A e \in Range(walk.edges) :
                              ~OwnsId(PathJoin(last.directory, F), e.from_id)
                  /\ F \notin Range(walk.skipped) => F \in Range(walk.extracted)
            /\ walk.files_skipped = Len(walk.skipped)
            /\ ~last.incremental => walk.skipped = <<>>

\* the statement the call's fault names was executed, so it failed
FaultFired(call) ==
    LET walk == call.out.walk
    IN  /\ call.valid
        /\ walk.raised = ""
        /\ Len(walk.errors) = 0
        /\ \/ call.fault.op = "node" /\ Len(walk.nodes) >= call.fault.n
           \/ call.fault.op = "delete" /\ processed_files(walk.nodes) # {}
           \/ call.fault.op = "edge" /\ Len(walk.edges) >= call.fault.n
           \/ call.fault.op = "hash" /\ Cardinality(DOMAIN walk.file_hashes) >= call.fault.n
           \/ call.fault.op = "commit"

\* C6: if a storage operation fails during a sync, the failure reaches the
\* caller and none of the sync's writes are committed: the store is as it
\* was before the call.
C6_StorageFailureAborts ==
    FaultFired(last) =>
        /\ last.out.outcome = "raised"
        /\ db = last.pre

\* ---------------------------------------------------------------- claims on concurrent calls
\* the rows of a project in a store
Rows(d, project) ==
    [code_nodes |-> {r \in d.code_nodes : r.project = project},
     code_edges |-> {r \in d.code_edges : r.project = project},
     file_hashes |-> {r \in d.file_hashes : r.project = project}]

\* What the call of p does to store d when it runs alone; a call that gave
\* up on the write lock does nothing.
Effect(p, d) ==
    IF proc[p].exc = "OperationalError" THEN d
    ELSE sync_from_directory(d, fs, root, proc[p].project, root,
                             proc[p].incremental, NoFault).db

C8_WritersSerialized ==
    \A p \in Procs :
        proc[p].writing =>
            /\ db = proc[p].begin_db
            /\ \A q \in Procs \ {p} :
                  proc[q].project = proc[p].project => ~proc[q].writing

\* C8 witness: a call has deleted edges of the project and not yet
\* inserted, the committed store still holds them, and another call for
\* the same project stands at a write statement.
C8_Witness ==
    \E p \in Procs : \E q \in Procs \ {p} :
        /\ proc[p].writing
        /\ proc[p].pc = "edges"
        /\ proc[p].txn.code_edges # db.code_edges
        /\ proc[q].project = proc[p].project
        /\ HasStatement(proc[q])

\* ---------------------------------------------------------------- claims on the walk
\* the path lies under a directory whose name is in IGNORED_DIRS
UnderIgnored(p) == \E i \in 1..Len(p) : p[i] \in IGNORED_DIRS

\* C11: the walk never hands to the extractor, and never skips as unchanged,
\* a file that lies under a directory whose name is in IGNORED_DIRS at any
\* depth below the root; no node or edge of such a file is returned, and
\* os.walk never lists such a directory or a directory below it.
C11_IgnoredDirsNeverWalked ==
    last.valid =>
        LET walk == last.out.walk
        IN  /\ \A p \in AllPaths :
                  UnderIgnored(p) =>
                      /\ p \notin Range(walk.extracted)
                      /\ p \notin Range(walk.skipped)
                      /\ p \notin DOMAIN walk.file_hashes
                      /\ \A n \in Range(walk.nodes) :
                            n.file_path # PathJoin(last.directory, p)
                      /\ \A e \in Range(walk.edges) :
                            ~OwnsId(PathJoin(last.directory, p), e.from_id)
            /\ \A d \in Range(walk.visited) : ~UnderIgnored(d)

\* C11 witness: the directory holds a supported file under s/dist and a file
\* under s; the walk went down into s and extracted the file of s.
C11_Witness ==
    /\ last.valid
    /\ last.fs[S_DIST_A_PY].present
    /\ S_A_TS \in Range(last.out.walk.extracted)
    /\ <<"s">> \in Range(last.out.walk.visited)

\* C12: in an incremental walk a supported file whose digest cannot be
\* computed because it cannot be read is treated as changed: it is handed
\* to the extractor and not skipped, the walk does not raise, and every
\* other supported file is still visited.
C12_UnreadableTreatedAsChanged ==
    (last.valid /\ last.incremental) =>
        LET walk == last.out.walk
        IN  \A F \in Eligible(last.fs) :
                ~last.fs[F].readable =>
                    /\ walk.raised = ""
                    /\ F \in Range(walk.extracted)
                    /\ F \notin Range(walk.skipped)
                    /\ \A G \in Eligible(last.fs) :
                          G \in Range(walk.extracted) \cup Range(walk.skipped)

\* the supported files of a directory tree that the walk is to handle
EligibleTree(files) ==
    {p \in AllPaths :
        /\ files[p].present
        /\ Ext(p) \in DOMAIN SUPPORTED_EXTENSIONS
        /\ ~UnderIgnored(p)}

\* the file at path F was handed to the extractor by the call and the
\* extraction returned errors
ExtractionFailed(call, F) ==
    /\ call.valid
    /\ F \in Range(call.out.walk.extracted)
    /\ Len(extract_from_file(PathJoin(call.directory, F), call.fs[F]).errors) > 0

\* C13: when the extraction of one file returns errors the walk goes on:
\* it returns, every eligible file has been visited (extracted or skipped),
\* the failing file's messages are in errors, and the failing file has no
\* node, no edge, no entry in the returned hash map and no part in
\* files_processed.
C13_ErrorDoesNotStopWalk ==
    \A F \in AllPaths :
        ExtractionFailed(last, F) =>
            LET walk == last.out.walk
                file_path == PathJoin(last.directory, F)
                Succeeded(G) ==
                    Len(extract_from_file(PathJoin(last.directory, G), last.fs[G]).errors) = 0
            IN  /\ walk.raised = ""
                /\ \A G \in EligibleTree(last.fs) :
                      G \in Range(walk.extracted) \cup Range(walk.skipped)
                /\ \A m \in Range(extract_from_file(file_path, last.fs[F]).errors) :
                      m \in Range(walk.errors)
                /\ \A n \in Range(walk.nodes) : n.file_path # file_path
                /\ \A e \in Range(walk.edges) : ~OwnsId(file_path, e.from_id)
                /\ F \notin DOMAIN walk.file_hashes
                /\ walk.files_processed
                      = Cardinality({G \in Range(walk.extracted) : Succeeded(G)})

\* C13 on the walks that return: the same statement for a call whose walk
\* did not raise.
C13_OnReturnedWalks ==
    last.out.walk.raised = "" => C13_ErrorDoesNotStopWalk

\* ---------------------------------------------------------------- claims on the extractor
\* the file cannot be extracted: it is missing or unreadable, its extension
\* is not supported, or its language has no extractor
Unextractable(file_path, f) ==
    \/ ~f.present
    \/ ~f.readable
    \/ detect_language(file_path) \notin {"typescript", "javascript", "python"}

\* C15: extract_from_file never raises; for a missing or unreadable file,
\* an unsupported extension or a language without an extractor it returns
\* a result with a non-empty errors list and no nodes and no edges; a
\* result that has nodes or edges has an empty errors list.
C15_ExtractNeverRaises ==
    \A i \in 1..Len(ex) :
        LET r == ex[i].result
        IN  /\ r.raised = ""
            /\ Unextractable(ex[i].file_path, ex[i].file) =>
                  /\ Len(r.errors) > 0
                  /\ r.nodes = <<>>
                  /\ r.edges = <<>>
            /\ (r.nodes # <<>> \/ r.edges # <<>>) => r.errors = <<>>

\* C15 on the extractions that return: the same statement without the
\* first conjunct.
C15_OnReturnedExtractions ==
    \A i \in 1..Len(ex) :
        LET r == ex[i].result
        IN  r.raised = "" =>
              /\ Unextractable(ex[i].file_path, ex[i].file) =>
                    /\ Len(r.errors) > 0
                    /\ r.nodes = <<>>
                    /\ r.edges = <<>>
              /\ (r.nodes # <<>> \/ r.edges # <<>>) => r.errors = <<>>

\* the extraction returned nodes and edges, not errors
Successful(r) == r.raised = "" /\ r.errors = <<>>

\* C16: every successful extraction result has exactly one node of kind
\* file, with id file.<path>; every other node of the result is the target
\* of a defines edge from that file node with confidence 1.0; every defines
\* edge of the result leaves the file node and targets a node of the result.
C16_FileNodeDefinesAll ==
    \A i \in 1..Len(ex) :
        LET r == ex[i].result
            file_id == <<"file", ".">> \o ex[i].file_path
        IN  Successful(r) =>
              /\ Cardinality({k \in 1..Len(r.nodes) : r.nodes[k].kind = "file"}) = 1
              /\ \E k \in 1..Len(r.nodes) :
                    r.nodes[k].kind = "file" /\ r.nodes[k].id = file_id
              /\ \A k \in 1..Len(r.nodes) :
                    r.nodes[k].kind # "file" =>
                        \E e \in Range(r.edges) :
                            /\ e.kind = "defines"
                            /\ e.from_id = file_id
                            /\ e.to_id = r.nodes[k].id
                            /\ e.confidence = 10
              /\ \A e \in Range(r.edges) :
                    e.kind = "defines" =>
                        /\ e.from_id = file_id
                        /\ e.to_id \in {n.id : n \in Range(r.nodes)}

\* C16 witness: a successful result with a file node and two declaration
\* nodes, and one with a class node that also has extends edges.
C16_Witness ==
    /\ \E i \in 1..Len(ex) :
          Successful(ex[i].result) /\ Len(ex[i].result.nodes) >= 3
    /\ \E i \in 1..Len(ex) :
          /\ Successful(ex[i].result)
          /\ \E e \in Range(ex[i].result.edges) : e.kind = "extends"

\* the edges of kind k that result r holds from the node of declaration
\* line ln of the file at file_path
ClauseEdges(r, file_path, ln, k) ==
    {j \in 1..Len(r.edges) :
        /\ r.edges[j].kind = k
        /\ r.edges[j].from_id = <<ln.t, ".">> \o file_path \o <<":", ln.name>>}

\* one edge of kind k with confidence 0.8 per name of the clause
OneEdgePerName(r, file_path, ln, k, names) ==
    /\ Cardinality(ClauseEdges(r, file_path, ln, k)) = Len(names)
    /\ \A b \in Range(names) :
          \E j \in ClauseEdges(r, file_path, ln, k) :
              /\ r.edges[j].to_id[Len(r.edges[j].to_id)] = b
              /\ r.edges[j].confidence = 8

DeclaresWithClause(i, kinds) ==
    \A j \in 1..Len(ex[i].file.lines) :
        LET ln == ex[i].file.lines[j]
        IN  (ln.t \in kinds /\ (ln.ext # <<>> \/ ln.impl # <<>>)) =>
              /\ OneEdgePerName(ex[i].result, ex[i].file_path, ln, "extends", ln.ext)
              /\ OneEdgePerName(ex[i].result, ex[i].file_path, ln, "implements", ln.impl)

\* C17: every class or interface declaration with an inheritance or
\* implementation clause gives one extends edge per named base and one
\* implements edge per implemented interface, each from the declaration's
\* own node with confidence 0.8 (TypeScript classes, TypeScript interfaces
\* with an extends clause, Python classes with bases).
C17_InheritanceEdges ==
    \A i \in 1..Len(ex) :
        Successful(ex[i].result) => DeclaresWithClause(i, {"class", "interface"})

\* the same for class declarations only
C17_OnClasses ==
    \A i \in 1..Len(ex) :
        Successful(ex[i].result) => DeclaresWithClause(i, {"class"})

\* ---------------------------------------------------------------- claims on the node merge
\* the orders in which a list of nodes can be handed to the node loop
Reorderings(nodes) ==
    {[k \in 1..Len(nodes) |-> nodes[pi[k]]] : pi \in Permutations(1..Len(nodes))}

\* C18: the node merge is idempotent and order-independent: the node-upsert
\* step applied twice to the list of nodes of an extraction, or applied to
\* any permutation of that list, leaves the node table with the same rows.
C18_MergeIdempotentOrderIndependent ==
    \A i \in 1..Len(ex) :
        LET nodes == ex[i].result.nodes
            once == MergeNodeList(db.code_nodes, "P", nodes)
        IN  /\ MergeNodeList(once, "P", nodes) = once
            /\ \A perm \in Reorderings(nodes) :
                  MergeNodeList(db.code_nodes, "P", perm) = once

\* the same for lists in which no two nodes have the same id
C18_OnDistinctIds ==
    \A i \in 1..Len(ex) :
        LET nodes == ex[i].result.nodes
            once == MergeNodeList(db.code_nodes, "P", nodes)
        IN  Cardinality({n.id : n \in Range(nodes)}) = Len(nodes) =>
              /\ MergeNodeList(once, "P", nodes) = once
              /\ \A perm \in Reorderings(nodes) :
                    MergeNodeList(db.code_nodes, "P", perm) = once

\* ---------------------------------------------------------------- claims on the hash records
\* the hash records the store holds for file F of the call's project
HashRecords(call, F) ==
    {r \in db.file_hashes : r.project = call.project /\ r.file_path = F}

\* what the extractor gives for file F of the call's directory, alone
OwnExtraction(call, F) ==
    extract_from_file(PathJoin(call.directory, F), call.fs[F])

\* C19: after a successful sync there is exactly one hash record per
\* (project, file) for every file of the walk result, processed or skipped;
\* it holds the file's hash of the walk result, and its node_count and
\* edge_count are the numbers of nodes and edges of exactly that file.
C19_HashRecordCounts ==
    Committed(last) =>
        \A F \in DOMAIN last.out.walk.file_hashes :
            /\ Cardinality(HashRecords(last, F)) = 1
            /\ \A r \in HashRecords(last, F) :
                  /\ r.hash = last.out.walk.file_hashes[F]
                  /\ r.node_count = Len(OwnExtraction(last, F).nodes)
                  /\ r.edge_count = Len(OwnExtraction(last, F).edges)

\* the same without the two counts
C19_OneRecordWithHash ==
    Committed(last) =>
        \A F \in DOMAIN last.out.walk.file_hashes :
            /\ Cardinality(HashRecords(last, F)) = 1
            /\ \A r \in HashRecords(last, F) :
                  r.hash = last.out.walk.file_hashes[F]

\* the same for the counts of the files the call extracted, when no other
\* file of the walk has a path that contains the file's path
C19_OnProcessedDisjointPaths ==
    Committed(last) =>
        \A F \in DOMAIN last.out.walk.file_hashes :
            (/\ F \in Range(last.out.walk.extracted)
             /\ \A G \in DOMAIN last.out.walk.file_hashes :
                   G # F => ~Contains(PathJoin(last.directory, G), F)) =>
                \A r \in HashRecords(last, F) :
                    /\ r.node_count = Len(OwnExtraction(last, F).nodes)
                    /\ r.edge_count = Len(OwnExtraction(last, F).edges)

\* ---------------------------------------------------------------- claims on edge ownership
\* the paths under which the files of a synced directory are extracted
SourceFiles == {PathJoin(d, F) : d \in Dirs, F \in Paths}

\* the source files that own the edge: its from_id is the id of their file
\* node or of one of their declaration nodes
Owners(r) == {file_path \in SourceFiles : OwnsId(file_path, r.from_id)}

\* the edges of the call's project that were stored before the call and
\* are not stored after it
Removed(call) ==
    {r \in call.pre.code_edges : r.project = call.project /\ r \notin db.code_edges}

\* C20: the from_id of every stored edge is the id of the file node or of a
\* declaration node of exactly one source file, and the edges a committed
\* sync removes are owned by the files it reprocessed: no edge of a file
\* that was not reprocessed is removed.
C20_DeleteKeepsOtherFilesEdges ==
    /\ \A r \in db.code_edges : Cardinality(Owners(r)) = 1
    /\ Committed(last) =>
          \A r \in Removed(last) :
              Owners(r) \subseteq processed_files(last.out.walk.nodes)

\* the same without the delete: every stored edge has one owning file
C20_OneOwner ==
    \A r \in db.code_edges : Cardinality(Owners(r)) = 1

\* ================================================================ project graph (graph.py)
Depths == 0..3

Directions == {"outgoing", "incoming", "both"}

\* the rows add_edge is asked to insert
EdgeInputs ==
    {[project |-> "P", from_id |-> x[1], to_id |-> x[2], kind |-> "uses"] :
        x \in {<<"a", "b">>, <<"b", "a">>, <<"b", "c">>, <<"c", "a">>,
                <<"a", "c">>, <<"a", "a">>}}
    \cup {[project |-> "Q", from_id |-> "a", to_id |-> "c", kind |-> "uses"]}

\* the graphs of the test fixtures: a chain a -> b -> c and a cycle a -> b -> c -> a
ChainGraph ==
    <<[project |-> "P", from_id |-> "a", to_id |-> "b", kind |-> "uses"],
      [project |-> "P", from_id |-> "b", to_id |-> "c", kind |-> "uses"]>>

CyclicGraph ==
    ChainGraph \o <<[project |-> "P", from_id |-> "c", to_id |-> "a", kind |-> "uses"]>>

\* SELECT e.to_id, e.kind ... WHERE e.from_id = ? [AND e.project = ?]
\* (project None or '' leaves the project condition out)
OutgoingRows(edges, current_id, project) ==
    SelectSeq(edges, LAMBDA e : e.from_id = current_id
                                 /\ (project # NULL => e.project = project))

\* SELECT e.from_id, e.kind ... WHERE e.to_id = ? [AND e.project = ?]
IncomingRows(edges, current_id, project) ==
    SelectSeq(edges, LAMBDA e : e.to_id = current_id
                                 /\ (project # NULL => e.project = project))

\* Mutant of NotVisited: the visited set is not consulted.
NotVisited_Always(visited, neighbor_id) == TRUE

\* if neighbor_id not in visited
NotVisited(visited, neighbor_id) == neighbor_id \notin visited

\* for row in cursor.fetchall(): the rows of one query, in order; st is
\* [visited, results, queue]
RECURSIVE VisitRows(_, _, _, _, _)
VisitRows(st, rows, i, current_depth, dir) ==
    IF i > Len(rows) THEN st
    ELSE LET neighbor_id == IF dir = "outgoing" THEN rows[i].to_id ELSE rows[i].from_id
         IN  IF NotVisited(st.visited, neighbor_id)
               THEN VisitRows(
                      [visited |-> st.visited \cup {neighbor_id},
                       results |-> Append(st.results,
                                          [id |-> neighbor_id, edge_kind |-> rows[i].kind,
                                           distance |-> current_depth + 1,
                                           direction |-> dir]),
                       queue |-> Append(st.queue, <<neighbor_id, current_depth + 1>>)],
                      rows, i + 1, current_depth, dir)
               ELSE VisitRows(st, rows, i + 1, current_depth, dir)

\* while queue: popleft, expand unless current_depth >= depth
RECURSIVE BfsLoop(_, _, _, _, _)
BfsLoop(st, edges, project, depth, direction) ==
    IF st.queue = <<>> THEN st.results
    ELSE LET current_id == Head(st.queue)[1]
             current_depth == Head(st.queue)[2]
             popped == [st EXCEPT !.queue = Tail(@)]
             out == IF direction \in {"outgoing", "both"}
                      THEN VisitRows(popped, OutgoingRows(edges, current_id, project),
                                     1, current_depth, "outgoing")
                      ELSE popped
             inc == IF direction \in {"incoming", "both"}
                      THEN VisitRows(out, IncomingRows(edges, current_id, project),
                                     1, current_depth, "incoming")
                      ELSE out
         IN  IF current_depth >= depth
               THEN BfsLoop(popped, edges, project, depth, direction)
               ELSE BfsLoop(inc, edges, project, depth, direction)

get_neighbors(edges, node_id, project, depth, direction) ==
    BfsLoop([visited |-> {node_id}, results |-> <<>>, queue |-> <<<<node_id, 0>>>>],
            edges, project, depth, direction)

InitGraph ==
    /\ Init
    /\ \A p \in AllPaths : ~fs[p].present
    /\ project_edges \in {<<>>, ChainGraph, CyclicGraph}

\* add_edge(from_id, to_id, kind, project): the insert fails with
\* IntegrityError on UNIQUE(project, from_id, to_id, kind) and returns False
add_edge(row) ==
    /\ nSteps < MaxSteps
    /\ project_edges' = IF row \in Range(project_edges) THEN project_edges
                        ELSE Append(project_edges, row)
    /\ nSteps' = nSteps + 1
    /\ UNCHANGED <<fs, root, db, last, prev, proc, lock, base, ex, nb, taskVars, dep>>

\* delete_edge(project, from_id, to_id, kind)
delete_edge(row) ==
    /\ nSteps < MaxSteps
    /\ row \in Range(project_edges)
    /\ project_edges' = SelectSeq(project_edges, LAMBDA e : e # row)
    /\ nSteps' = nSteps + 1
    /\ UNCHANGED <<fs, root, db, last, prev, proc, lock, base, ex, nb, taskVars, dep>>

\* A get_neighbors call; the call and its result are recorded in nb.
GetNeighbors(node_id, project, depth, direction) ==
    /\ nSteps < MaxSteps
    /\ nb' = [valid |-> TRUE, node_id |-> node_id, project |-> project,
              depth |-> depth, direction |-> direction, edges |-> project_edges,
              results |-> get_neighbors(project_edges, node_id, project, depth, direction)]
    /\ nSteps' = nSteps + 1
    /\ UNCHANGED <<fs, root, db, last, prev, proc, lock, base, ex, project_edges,
                   taskVars, dep>>

AddEdge == \E row \in EdgeInputs : add_edge(row)

DeleteEdge == \E row \in EdgeInputs : delete_edge(row)

QueryNeighbors ==
    \E node_id \in {"a", "b", "nonexistent"}, project \in {"P", "empty_project", NULL},
       depth \in Depths, direction \in Directions :
        GetNeighbors(node_id, project, depth, direction)

NextGraph == AddEdge \/ DeleteEdge \/ QueryNeighbors

SpecGraph == InitGraph /\ [][NextGraph]_vars

\* ---------------------------------------------------------------- claims on get_neighbors
\* the edges stored when the call was made that it looks at: those of its
\* project, of all projects if none
EdgesSeen(call) ==
    {e \in Range(call.edges) : call.project # NULL => e.project = call.project}

\* the nodes one hop from a node of S along edges of the call's direction
OneHop(call, S) ==
    {e.to_id : e \in {x \in EdgesSeen(call) :
                        x.from_id \in S /\ call.direction \in {"outgoing", "both"}}}
    \cup {e.from_id : e \in {x \in EdgesSeen(call) :
                        x.to_id \in S /\ call.direction \in {"incoming", "both"}}}

\* the nodes within k hops of the start node
RECURSIVE Within(_, _)
Within(call, k) ==
    IF k = 0 THEN {call.node_id}
    ELSE Within(call, k - 1) \cup OneHop(call, Within(call, k - 1))

\* the breadth-first hop count of a node within the call's depth
HopCount(call, n) == CHOOSE k \in 0..call.depth : n \in Within(call, k) /\
                        \A j \in 0..(k - 1) : n \notin Within(call, j)

\* C21: get_neighbors returns exactly the nodes reachable from the start
\* node within depth hops along edges of the requested direction, each
\* once, never the start node, with distance equal to the breadth-first hop
\* count; depth 0 or a start node without edges gives the empty list.
C21_NeighborsAreBreadthFirst ==
    nb.valid =>
        LET ids == [i \in 1..Len(nb.results) |-> nb.results[i].id]
        IN  /\ Cardinality(Range(ids)) = Len(ids)
            /\ Range(ids) = Within(nb, nb.depth) \ {nb.node_id}
            /\ \A r \in Range(nb.results) : r.distance = HopCount(nb, r.id)
            /\ (nb.depth = 0 \/ OneHop(nb, {nb.node_id}) = {}) => nb.results = <<>>

\* C21 witness: a call on a graph with a cycle through the start node that
\* returned a node two hops away, and a call with depth 0 on a node with edges.
C21_Witness ==
    /\ nb.valid
    /\ nb.depth >= 2
    /\ nb.node_id \in OneHop(nb, OneHop(nb, {nb.node_id}))
    /\ \E r \in Range(nb.results) : r.distance = 2

\* ================================================================ task lifecycle (facade.py, tasks.py)
MAX_RETRIES == 3

\* the subtasks of parent task "main", in the order of their creation: two
\* executor tasks and the critic task that validates them
TaskOrder == <<"t1", "t2", "c1">>

TaskIds == Range(TaskOrder)

\* A row of table tasks.  Texts (description, result, error_message), the
\* timestamps, retry_count and the agent log play no part in the lifecycle
\* and are left out.
TaskRow(parent_id, status, phase, requires_validation, validation_status) ==
    [parent_id |-> parent_id, status |-> status, phase |-> phase,
     requires_validation |-> requires_validation,
     validation_status |-> validation_status, validator_task_id |-> NULL,
     rejection_count |-> 0]

\* create_subtask(parent_id, ..., requires_validation): the insert names
\* requires_validation; status, phase and validation_status get the column
\* defaults of the table, which the sources read as 'pending', None or
\* 'execution', and None or 'pending'
NewSubtasks(requires_validation) ==
    {TaskRow("main", "pending", phase, requires_validation, validation_status) :
        phase \in {NULL, "execution"}, validation_status \in {NULL, "pending"}}

\* get_task(task_id): the row, or None
get_task(rows, task_id) ==
    IF task_id \in DOMAIN rows THEN rows[task_id] ELSE NULL

\* UPDATE tasks SET ... WHERE id = ?: no row, no change
UpdateRow(rows, task_id, Change(_)) ==
    IF task_id \in DOMAIN rows
        THEN [rows EXCEPT ![task_id] = Change(@)]
        ELSE rows

update_task_status(rows, task_id, status) ==
    UpdateRow(rows, task_id, LAMBDA r : [r EXCEPT !.status = status])

advance_task_phase(rows, task_id, phase) ==
    UpdateRow(rows, task_id, LAMBDA r : [r EXCEPT !.phase = phase])

mark_validated(rows, task_id, status, validator_task_id) ==
    UpdateRow(rows, task_id,
              LAMBDA r : [r EXCEPT !.validation_status = status,
                                   !.validator_task_id = validator_task_id,
                                   !.phase = IF status = "approved" THEN "documentation"
                                             ELSE IF status = "rejected" THEN "execution"
                                             ELSE @])

\* AND (validation_status IS NULL OR validation_status = 'pending')
NotYetValidated(validation_status) == validation_status \in {NULL, "pending"}

\* get_unvalidated_tasks(parent_id): the ids, ORDER BY created_at
get_unvalidated_tasks(rows, parent_id) ==
    SelectSeq(TaskOrder,
              LAMBDA t : /\ t \in DOMAIN rows
                         /\ rows[t].parent_id = parent_id
                         /\ rows[t].status = "done"
                         /\ rows[t].requires_validation
                         /\ NotYetValidated(rows[t].validation_status))

\* what a lifecycle call returns and the task table it leaves
Returned(rows, status, phase, next_action, retry_count) ==
    [tasks |-> rows,
     ret |-> [status |-> status, phase |-> phase, next_action |-> next_action,
              retry_count |-> retry_count, pending_validation |-> <<>>]]

finish_task(rows, task_id, success, skip_validation) ==
    LET task == get_task(rows, task_id)
        updated == update_task_status(rows, task_id, IF success THEN "done" ELSE "failed")
    IN  IF task_id \notin DOMAIN rows    \* if not task
          THEN Returned(rows, "error", NULL, "check_task_id", 0)
        ELSE IF ~success
          THEN Returned(updated, "failed", task.phase, "retry", 0)
        ELSE IF skip_validation \/ ~task.requires_validation
          THEN Returned(advance_task_phase(updated, task_id, "documentation"),
                        "done", "documentation", "proceed", 0)
        ELSE Returned(advance_task_phase(updated, task_id, "validation"),
                      "done", "validation", "await_validation", 0)

\* if retry_count >= MAX_RETRIES
ExceededRetries(retry_count) == retry_count >= MAX_RETRIES

finish_validation(rows, task_id, original_task_id, approved) ==
    LET original_task == get_task(rows, original_task_id)
        critic_done == update_task_status(rows, task_id, "done")
        retry_count == original_task.rejection_count + 1
    IN  IF original_task_id \notin DOMAIN rows    \* if not original_task
          THEN Returned(rows, "error", NULL, "check_task_id", 0)
        ELSE IF approved
          THEN Returned(advance_task_phase(
                          mark_validated(critic_done, original_task_id, "approved", task_id),
                          original_task_id, "documentation"),
                        "approved", "documentation", "proceed", 0)
        ELSE IF ExceededRetries(retry_count)
          THEN Returned(mark_validated(
                          update_task_status(critic_done, original_task_id, "blocked"),
                          original_task_id, "rejected", task_id),
                        "blocked", NULL, "human_review", 0)
        ELSE Returned(
               mark_validated(
                 advance_task_phase(
                   update_task_status(
                     UpdateRow(critic_done, original_task_id,
                               LAMBDA r : [r EXCEPT !.rejection_count = retry_count]),
                     original_task_id, "pending"),
                   original_task_id, "execution"),
                 original_task_id, "rejected", task_id),
               "rejected", "execution", "resume_executor", retry_count)

\* for task in <list>: mark_validated(task['id'], status, validator)
RECURSIVE MarkAll(_, _, _, _, _)
MarkAll(rows, ids, i, status, validator) ==
    IF i > Len(ids) THEN rows
    ELSE MarkAll(mark_validated(rows, ids[i], status, validator), ids, i + 1,
                 status, validator)

run_validation_cycle(rows, parent_id, mode, sample_count) ==
    LET unvalidated == get_unvalidated_tasks(rows, parent_id)
        to_validate == SubSeq(unvalidated, 1,
                              IF sample_count < Len(unvalidated) THEN sample_count
                              ELSE Len(unvalidated))
        to_auto_approve == SubSeq(unvalidated, Len(to_validate) + 1, Len(unvalidated))
        Cycle(after, pending) ==
            [tasks |-> after,
             ret |-> [status |-> mode, phase |-> NULL, next_action |-> NULL,
                      retry_count |-> 0, pending_validation |-> pending]]
    IN  IF unvalidated = <<>> THEN Cycle(rows, <<>>)
        ELSE IF mode = "batch_approve"
          THEN Cycle(MarkAll(rows, unvalidated, 1, "approved", "system:batch_approve"), <<>>)
        ELSE IF mode = "batch_skip"
          THEN Cycle(MarkAll(rows, unvalidated, 1, "skipped", "system:batch_skip"), <<>>)
        ELSE IF mode = "sample"
          THEN Cycle(MarkAll(rows, to_auto_approve, 1, "approved", "system:sample_auto"),
                     to_validate)
        ELSE Cycle(rows, unvalidated)

InitTasks ==
    /\ fs = [p \in AllPaths |-> Absent]
    /\ root = DIR_P
    /\ db = EmptyDb
    /\ last = NoCall
    /\ prev = NoCall
    /\ nSteps = 0
    /\ proc = [p \in Procs |-> IdleProc]
    /\ lock = 0
    /\ base = EmptyDb
    /\ ex = <<>>
    /\ project_edges = <<>>
    /\ nb = [valid |-> FALSE]
    /\ dep = [valid |-> FALSE]
    /\ \E r1 \in NewSubtasks(TRUE), r2 \in NewSubtasks(FALSE) :
          tasks = [t \in TaskIds |->
                      IF t = "t1" THEN r1
                      ELSE IF t = "t2" THEN r2
                      ELSE TaskRow("main", "pending", r1.phase, FALSE, r1.validation_status)]
    /\ rejections = [t \in TaskIds |-> 0]
    /\ lifecycle = [valid |-> FALSE]

\* A lifecycle call is made; the call, the row it found and what it
\* returned are recorded.
Lifecycle(op, task_id, flag, out) ==
    /\ nSteps < MaxSteps
    /\ tasks' = out.tasks
    /\ lifecycle' = [valid |-> TRUE, op |-> op, task_id |-> task_id, flag |-> flag,
                     pre |-> get_task(tasks, task_id), ret |-> out.ret]
    /\ rejections' = IF op = "finish_validation" /\ ~flag /\ task_id \in DOMAIN tasks
                       THEN [rejections EXCEPT ![task_id] = @ + 1]
                       ELSE rejections
    /\ nSteps' = nSteps + 1
    /\ UNCHANGED <<fs, root, db, last, prev, proc, lock, base, ex, graphVars, dep>>

FinishTask ==
    \E task_id \in {"t1", "t2", "missing"}, success \in BOOLEAN, skip_validation \in BOOLEAN :
        Lifecycle("finish_task", task_id, success,
                  finish_task(tasks, task_id, success, skip_validation))

FinishValidation ==
    \E original_task_id \in {"t1", "t2", "missing"}, approved \in BOOLEAN :
        Lifecycle("finish_validation", original_task_id, approved,
                  finish_validation(tasks, "c1", original_task_id, approved))

RunValidationCycle ==
    \E mode \in {"normal", "batch_approve", "batch_skip", "sample"} :
        Lifecycle("run_validation_cycle", "main", TRUE,
                  run_validation_cycle(tasks, "main", mode, 1))

NextTasks == FinishTask \/ FinishValidation \/ RunValidationCycle

SpecTasks == InitTasks /\ [][NextTasks]_vars

\* ---------------------------------------------------------------- claims on the task lifecycle
\* the latest call was finish_validation(critic, t, approved=False) on a
\* stored task t
Rejection(t) ==
    /\ lifecycle.valid
    /\ lifecycle.op = "finish_validation"
    /\ ~lifecycle.flag
    /\ lifecycle.task_id = t

RejectedForRetry(t) ==
    /\ lifecycle.ret.status = "rejected"
    /\ lifecycle.ret.next_action = "resume_executor"
    /\ tasks[t].status = "pending"
    /\ tasks[t].phase = "execution"
    /\ tasks[t].rejection_count = lifecycle.pre.rejection_count + 1

BlockedForReview(t) ==
    /\ lifecycle.ret.status = "blocked"
    /\ lifecycle.ret.next_action = "human_review"
    /\ tasks[t].status = "blocked"

\* C22: a rejecting finish_validation returns 'rejected' with next_action
\* 'resume_executor', with the task back to 'pending' and 'execution' and
\* rejection_count incremented, as long as the task has not been rejected
\* more than MAX_RETRIES times; only past that it blocks the task and returns
\* 'human_review'; rejection_count never exceeds MAX_RETRIES.
C22_RejectUntilRetriesExceeded ==
    /\ \A t \in TaskIds :
          Rejection(t) =>
              IF rejections[t] <= MAX_RETRIES
                  THEN RejectedForRetry(t)
                  ELSE BlockedForReview(t)
    /\ \A t \in TaskIds : tasks[t].rejection_count <= MAX_RETRIES

\* the same with the task blocked at its MAX_RETRIES-th rejection
C22_BlockedAtMaxRetries ==
    /\ \A t \in TaskIds :
          Rejection(t) =>
              IF rejections[t] < MAX_RETRIES
                  THEN RejectedForRetry(t)
                  ELSE BlockedForReview(t)
    /\ \A t \in TaskIds : tasks[t].rejection_count < MAX_RETRIES

\* C29: no task sits in status 'done' and phase 'validation' with
\* validation required without being returned by get_unvalidated_tasks for
\* its parent; in particular a subtask rejected by finish_validation and
\* completed again with finish_task(success=True) is returned.
C29_RejectedTaskValidatedAgain ==
    \A t \in TaskIds :
        ( /\ tasks[t].status = "done"
          /\ tasks[t].phase = "validation"
          /\ tasks[t].requires_validation )
        => t \in Range(get_unvalidated_tasks(tasks, tasks[t].parent_id))

\* ---------------------------------------------------------------- claims on stale rows
\* the node rows of declarations that file F held before the call, stored
\* by then, and that the call's extraction of F no longer gives
RemovedDeclarations(call, F) ==
    {r \in NodesOf(call.pre.code_nodes, call.project, PathJoin(call.directory, F)) :
        /\ r.kind # "file"
        /\ r.id \notin {n.id : n \in Range(call.out.walk.nodes)}}

StoresNode(code_nodes, r) ==
    \E x \in code_nodes : x.id = r.id /\ x.project = r.project

DefinesEdgeTo(code_edges, r) ==
    {e \in code_edges : e.project = r.project /\ e.kind = "defines" /\ e.to_id = r.id}

\* an incremental sync deletes no node row; the node row of a declaration
\* removed from a file it reprocesses is still stored and no defines edge
\* leads to it any more
IncrementalKeepsNodeRows ==
    (Committed(last) /\ last.incremental) =>
        /\ \A r \in last.pre.code_nodes : StoresNode(db.code_nodes, r)
        /\ \A F \in Paths :
              Reprocessed(last, F) =>
                  \A r \in RemovedDeclarations(last, F) :
                      /\ StoresNode(db.code_nodes, r)
                      /\ DefinesEdgeTo(db.code_edges, r) = {}

\* after a full rebuild the node row of a removed declaration is absent
FullRebuildDropsNodeRows ==
    (Committed(last) /\ ~last.incremental) =>
        \A F \in Paths :
            Reprocessed(last, F) =>
                \A r \in RemovedDeclarations(last, F) : ~StoresNode(db.code_nodes, r)

\* C23: no incremental sync deletes a node row: when a changed file from
\* which a declaration was removed is re-synced incrementally, the
\* declaration's node row is still stored and the defines edge from the
\* file node to it is gone; the full rebuild is the one sync path after
\* which that node is absent.
C23_NodeRowsGoOnlyOnFullRebuild ==
    IncrementalKeepsNodeRows /\ FullRebuildDropsNodeRows

\* the part of C23 on incremental syncs
C23_OnIncrementalSyncs == IncrementalKeepsNodeRows

\* ---------------------------------------------------------------- claims on block ends
\* the braces of the lines from line s on, each with its 1-indexed line
RECURSIVE BracesFrom(_, _)
BracesFrom(lines, s) ==
    IF s > Len(lines) THEN <<>>
    ELSE [j \in 1..Len(lines[s].braces) |-> [line |-> s, char |-> lines[s].braces[j]]]
         \o BracesFrom(lines, s + 1)

\* the line of the brace that closes the block opened by the first brace of
\* bs, 0 if it is not closed; depth is the number of blocks open before bs[k]
RECURSIVE ClosingLine(_, _, _)
ClosingLine(bs, k, depth) ==
    IF k > Len(bs) THEN 0
    ELSE IF bs[k].char = "{" THEN ClosingLine(bs, k + 1, depth + 1)
    ELSE IF depth = 1 THEN bs[k].line
    ELSE ClosingLine(bs, k + 1, depth - 1)

\* the braces from the first opening brace on
RECURSIVE FromOpeningBrace(_)
FromOpeningBrace(bs) ==
    IF bs = <<>> THEN <<>>
    ELSE IF Head(bs).char = "{" THEN bs
    ELSE FromOpeningBrace(Tail(bs))

\* the block end of the declaration on line s: the line of the closing
\* brace that balances its opening brace, the number of lines if there is none
BalancedBlockEnd(content, s) ==
    LET closing == ClosingLine(FromOpeningBrace(BracesFrom(content.lines, s)), 1, 0)
    IN  IF closing = 0 THEN Len(SplitLines(content)) ELSE closing

BraceDelimited(n) ==
    n.language = "typescript" /\ n.kind \in {"function", "class", "interface"}

\* C24: for a brace-delimited declaration that starts on line s the block
\* end is the line of the closing brace that balances the declaration's
\* opening brace, the total number of lines when the braces never balance,
\* and never a line smaller than s.
C24_BlockEndBalancesOpeningBrace ==
    \A i \in 1..Len(ex) :
        Successful(ex[i].result) =>
            \A n \in Range(ex[i].result.nodes) :
                BraceDelimited(n) =>
                    /\ n.line_end = BalancedBlockEnd(ReadText(ex[i].file), n.line_start)
                    /\ n.line_end >= n.line_start

\* the same for declarations with no closing brace before their opening brace
C24_OnOpeningBraceFirst ==
    \A i \in 1..Len(ex) :
        Successful(ex[i].result) =>
            \A n \in Range(ex[i].result.nodes) :
                ( /\ BraceDelimited(n)
                  /\ LET bs == BracesFrom(ex[i].file.lines, n.line_start)
                     IN  bs # <<>> => Head(bs).char = "{" )
                =>
                    /\ n.line_end = BalancedBlockEnd(ReadText(ex[i].file), n.line_start)
                    /\ n.line_end >= n.line_start

\* ================================================================ edits during incremental syncs
\* The directory holds a.ts alone, and the store is either empty or left by
\* an incremental sync of the directory as it is.
InitRace ==
    /\ Init
    /\ \A p \in Paths \ {A_TS} : ~fs[p].present
    /\ fs[A_TS].present
    /\ db \in {EmptyDb,
               sync_from_directory(EmptyDb, fs, root, "P", root, TRUE, NoFault).db}
    /\ base = db

\* a.ts is rewritten while calls may be in flight: between the hash-map
\* read, the walk and the write transaction of a call
EditDuringCalls ==
    /\ \E v \in Versions(A_TS) :
          /\ v # fs[A_TS]
          /\ fs' = [fs EXCEPT ![A_TS] = v]
    /\ UNCHANGED <<root, db, last, prev, nSteps, proc, lock, base, ex,
                   graphVars, taskVars, dep>>

StartIncrementalSync == \E p \in Procs : Start(p, "P", TRUE)

NextRace == EditDuringCalls \/ StartIncrementalSync \/ StepSync \/ NewRound

SpecRace == InitRace /\ [][NextRace]_vars

\* ---------------------------------------------------------------- claims on edits during syncs
\* the stored hash of file F of the project equals its current digest
HashIsCurrent(project, F) ==
    /\ fs[F].present
    /\ fs[F].readable
    /\ \E h \in db.file_hashes :
          /\ h.project = project
          /\ h.file_path = F
          /\ h.hash = compute_file_hash(fs[F])

\* the stored edges of file F are those extracted from its current content
EdgesAreCurrent(project, F) ==
    {EdgeKey(e) : e \in EdgesOf(db.code_edges, project, PathJoin(root, F))}
        = {EdgeKey(e) : e \in Range(extract_from_file(PathJoin(root, F), fs[F]).edges)}

\* two incremental calls on the project have both returned
BothFinished ==
    \A p \in Procs :
        /\ proc[p].pc = "done"
        /\ proc[p].outcome = "returned"
        /\ proc[p].incremental
        /\ proc[p].project = "P"

\* C25: for any interleaving of two incremental syncs of one project with
\* file edits between their steps, once both calls have finished every file
\* whose stored hash equals its current digest has stored edges equal to
\* those extracted from its current content.
C25_CurrentHashMeansCurrentEdges ==
    BothFinished =>
        \A F \in Paths : HashIsCurrent("P", F) => EdgesAreCurrent("P", F)

\* ================================================================ the returned summary
\* the node rows of the project the call found already stored
StoredBefore(call) ==
    {r.id : r \in {x \in call.pre.code_nodes : x.project = call.project}}

\* the ids the call's node loop wrote
WrittenIds(call) == {n.id : n \in Range(call.out.walk.nodes)}

\* the edge rows left by the call's DELETE statements, before its inserts
EdgesBeforeInserts(call) ==
    DeleteOldEdges(call.pre.code_edges, call.project, call.out.walk.nodes)

\* C26: the summary of a successful sync matches what it wrote: nodes_added
\* is the number of node rows newly inserted, nodes_updated the number of
\* existing rows overwritten, their sum the number of extracted nodes, and
\* edges_added the number of edge rows actually inserted.
C26_SummaryMatchesWrites ==
    Committed(last) =>
        LET ret == last.out.ret
        IN  /\ ret.nodes_added = Cardinality(WrittenIds(last) \ StoredBefore(last))
            /\ ret.nodes_updated = Cardinality(WrittenIds(last) \cap StoredBefore(last))
            /\ ret.nodes_added + ret.nodes_updated = Len(last.out.walk.nodes)
            /\ ret.edges_added =
                  Cardinality(db.code_edges) - Cardinality(EdgesBeforeInserts(last))

\* what the counters do count: the statements run by the two loops
C26_SummaryCountsStatements ==
    Committed(last) =>
        LET ret == last.out.ret
        IN  /\ ret.nodes_added = Len(last.out.walk.nodes)
            /\ ret.nodes_updated = 0
            /\ ret.edges_added = Len(last.out.walk.edges)

\* ================================================================ files deleted from the directory
\* the files that were not in the call's directory when it ran
Missing(call) == {F \in Paths : ~call.fs[F].present}

\* the rows the store holds for file F of the call's directory
RecordsOwnedBy(call, F) ==
    [edges  |-> EdgesOf(db.code_edges, call.project, PathJoin(call.directory, F)),
     nodes  |-> NodesOf(db.code_nodes, call.project, PathJoin(call.directory, F)),
     hashes |-> HashRecords(call, F)]

NoRecords == [edges |-> {}, nodes |-> {}, hashes |-> {}]

\* C27: after a successful incremental sync the store holds no edge, node or
\* hash record owned by a file that no longer exists under the synced
\* directory.
C27_DeletedFilesLeaveNoRecords ==
    (Committed(last) /\ last.incremental) =>
        \A F \in Missing(last) : RecordsOwnedBy(last, F) = NoRecords

\* an incremental sync writes nothing for a file that is not there: what is
\* stored for it was stored before the call
C27_NothingWrittenForMissingFiles ==
    (Committed(last) /\ last.incremental) =>
        \A F \in Missing(last) :
            /\ RecordsOwnedBy(last, F).edges \subseteq last.pre.code_edges
            /\ RecordsOwnedBy(last, F).nodes \subseteq last.pre.code_nodes
            /\ RecordsOwnedBy(last, F).hashes \subseteq last.pre.file_hashes

\* ================================================================ supported languages
\* list(set(SUPPORTED_EXTENSIONS.values()))
get_supported_languages == {SUPPORTED_EXTENSIONS[e] : e \in DOMAIN SUPPORTED_EXTENSIONS}

\* the file of the i-th extract_from_file call is there and can be read
ReadableFile(i) == ex[i].file.present /\ ex[i].file.readable

\* the i-th call returned a file node and no error
ExtractedFileNode(i) ==
    /\ ex[i].result.raised = ""
    /\ ex[i].result.errors = <<>>
    /\ \E k \in 1..Len(ex[i].result.nodes) :
          /\ ex[i].result.nodes[k].kind = "file"
          /\ ex[i].result.nodes[k].file_path = ex[i].file_path

\* C28: for every language of get_supported_languages(), that is every
\* extension of SUPPORTED_EXTENSIONS, extract_from_file on a readable file
\* of that language succeeds with an empty errors list and a file node.
C28_SupportedLanguagesExtract ==
    \A i \in 1..Len(ex) :
        (/\ ReadableFile(i)
         /\ detect_language(ex[i].file_path) \in get_supported_languages)
            => ExtractedFileNode(i)

\* the same for the languages extract_from_file has a branch for, on the
\* calls that return
C28_OnLanguagesWithExtractor ==
    \A i \in 1..Len(ex) :
        (/\ ReadableFile(i)
         /\ ex[i].result.raised = ""
         /\ detect_language(ex[i].file_path) \in {"typescript", "javascript", "python"})
            => ExtractedFileNode(i)

\* ================================================================ get_code_dependencies
\* The rows of code_edges of a project in an order a SELECT without ORDER BY
\* may return them.
FetchOrders(code_edges, project) ==
    LET rows == {r \in code_edges : r.project = project}
        n == Cardinality(rows)
    IN  {s \in [1..n -> rows] : \A i, j \in 1..n : s[i] = s[j] => i = j}

\* LEFT JOIN code_nodes n ON <id> = n.id AND e.project = n.project: n.kind
JoinedKind(code_nodes, project, id) ==
    IF \E n \in code_nodes : n.id = id /\ n.project = project
        THEN (CHOOSE n \in code_nodes : n.id = id /\ n.project = project).kind
        ELSE NULL

Dependency(code_nodes, project, id, relation, direction, current_depth) ==
    [id |-> id, kind |-> JoinedKind(code_nodes, project, id), relation |-> relation,
     direction |-> direction, depth |-> current_depth]

\* if current_depth < depth: _traverse(...)
DescendBelow(current_depth, depth) == current_depth < depth

\* _traverse(current_id, current_depth, relation) and its two loops over
\* the fetched rows; acc holds results and visited
RECURSIVE traverse(_, _, _, _, _), RowLoop(_, _, _, _, _, _, _)
traverse(acc, q, current_id, current_depth, relation) ==
    IF current_depth > q.depth \/ current_id \in acc.visited THEN acc
    ELSE LET seen == [acc EXCEPT !.visited = @ \cup {current_id}]
             out == SelectSeq(q.rows, LAMBDA e : e.from_id = current_id)
             inc == SelectSeq(q.rows, LAMBDA e : e.to_id = current_id)
             afterOut == IF q.direction \in {"outgoing", "both"}
                             THEN RowLoop(seen, q, out, 1, "outgoing", current_depth, relation)
                             ELSE seen
         IN  IF q.direction \in {"incoming", "both"}
                 THEN RowLoop(afterOut, q, inc, 1, "incoming", current_depth, relation)
                 ELSE afterOut

RowLoop(acc, q, rows, i, direction, current_depth, relation) ==
    IF i > Len(rows) THEN acc
    ELSE LET id == IF direction = "outgoing" THEN rows[i].to_id ELSE rows[i].from_id
             listed == [acc EXCEPT !.results =
                           Append(@, Dependency(q.code_nodes, q.project, id,
                                                rows[i].kind, direction, current_depth))]
         IN  IF id \in acc.visited
                 THEN RowLoop(acc, q, rows, i + 1, direction, current_depth, relation)
             ELSE IF DescendBelow(current_depth, q.depth)
                 THEN RowLoop(traverse(listed, q, id, current_depth + 1, rows[i].kind),
                              q, rows, i + 1, direction, current_depth, relation)
             ELSE RowLoop(listed, q, rows, i + 1, direction, current_depth, relation)

\* rows is the order in which the store returns the project's edges
get_code_dependencies(store, rows, project, node_id, depth, direction) ==
    traverse([results |-> <<>>, visited |-> {}],
             [rows |-> rows, code_nodes |-> store.code_nodes, project |-> project,
              depth |-> depth, direction |-> direction],
             node_id, 1, "").results

\* the start nodes asked for: the stored nodes, the targets of the stored
\* edges and an id the store does not know
UnknownId == <<"x">>

StartIds ==
    {n.id : n \in db.code_nodes} \cup {e.to_id : e \in db.code_edges} \cup {UnknownId}

DependencyDepths == 1..3

\* a.py alone, with one class or with two classes of one base
InitDeps ==
    /\ \E f \in {FileOf(PyClassKofB, "lf", "utf-8", TRUE),
                  FileOf(PyClassesKLofB, "lf", "utf-8", TRUE)} :
          fs = [p \in AllPaths |-> IF p = A_PY THEN f ELSE Absent]
    /\ root = DIR_P
    /\ db = EmptyDb
    /\ last = NoCall
    /\ prev = NoCall
    /\ nSteps = 0
    /\ proc = [p \in Procs |-> IdleProc]
    /\ lock = 0
    /\ base = EmptyDb
    /\ ex = <<>>
    /\ NoOtherCalls

GetCodeDependencies(rows, project, node_id, depth, direction) ==
    /\ dep' = [valid |-> TRUE, project |-> project, node_id |-> node_id,
               depth |-> depth, direction |-> direction, edges |-> rows,
               results |-> get_code_dependencies(db, rows, project, node_id,
                                                 depth, direction)]
    /\ UNCHANGED <<fs, root, db, last, prev, nSteps, proc, lock, base, ex,
                   graphVars, taskVars>>

\* one query is examined per behaviour: dep holds it
QueryDependencies ==
    /\ ~dep.valid
    /\ \E rows \in FetchOrders(db.code_edges, "P") :
          \E node_id \in StartIds, depth \in DependencyDepths, direction \in Directions :
              GetCodeDependencies(rows, "P", node_id, depth, direction)

SyncDirectory == Sync("P", root, TRUE, NoFault)

NextDeps == SyncDirectory \/ QueryDependencies

SpecDeps == InitDeps /\ [][NextDeps]_vars

\* ---------------------------------------------------------------- claims on get_code_dependencies
\* C30: get_code_dependencies never lists the start node, never lists the
\* same node twice for the same direction and relation, and reports for
\* every listed node a depth that is its minimal hop distance from the start
\* node and at most the requested depth.
C30_DependenciesOnceAtMinimalDepth ==
    dep.valid =>
        /\ \A i \in 1..Len(dep.results) :
              /\ dep.results[i].id # dep.node_id
              /\ dep.results[i].depth <= dep.depth
              /\ dep.results[i].id \in Within(dep, dep.depth)
              /\ dep.results[i].depth = HopCount(dep, dep.results[i].id)
        /\ \A i, j \in 1..Len(dep.results) :
              (/\ dep.results[i].id = dep.results[j].id
               /\ dep.results[i].direction = dep.results[j].direction
               /\ dep.results[i].relation = dep.results[j].relation) => i = j

\* what does hold: the start node is never listed, every listed node is
\* within the requested depth of the start node, and its reported depth is
\* between its hop distance and the requested depth
C30_NeverStartWithinDepth ==
    dep.valid =>
        \A i \in 1..Len(dep.results) :
            /\ dep.results[i].id # dep.node_id
            /\ dep.results[i].id \in Within(dep, dep.depth)
            /\ HopCount(dep, dep.results[i].id) <= dep.results[i].depth
            /\ dep.results[i].depth <= dep.depth

\* with depth 1 every node is listed once per direction and relation, at
\* its hop distance 1
C30_OnDepthOne ==
    (dep.valid /\ dep.depth = 1) =>
        /\ \A i \in 1..Len(dep.results) :
              dep.results[i].depth = HopCount(dep, dep.results[i].id)
        /\ \A i, j \in 1..Len(dep.results) :
              (/\ dep.results[i].id = dep.results[j].id
               /\ dep.results[i].direction = dep.results[j].direction
               /\ dep.results[i].relation = dep.results[j].relation) => i = j

====
